---------------------------- MODULE Spec2Model ----------------------------
(***************************************************************************)
(* Model of the task scheduler's control plane:                            *)
(*   - scheduler.MemQueue   (src/scheduler/queue.go, lines 12-72)          *)
(*   - scheduler.Scheduler  (src/scheduler/queue.go, lines 84-141)         *)
(*   - worker.Worker        (src/worker/worker.go)                         *)
(*   - domain.Task          (src/domain/worker.go, lines 85-127)           *)
(*   - memTaskRepo          (src/cmd/worker/main.go, lines 71-120)         *)
(*   - websocket.Hub        (src/unnamed/part_003, lines 113-215)          *)
(*                                                                         *)
(* A *domain.Task is owned by one goroutine at a time (the Submit caller,  *)
(* then the queue, then the worker that dequeued it), so a task object is  *)
(* a record value that travels through buf and cur.  The repository keeps  *)
(* its own copy (cp := *t), so store holds independent record values.     *)
(* Each mutex-protected region of the code is one atomic step.            *)
(* Timestamps are modelled by whether they are set.                        *)
(***************************************************************************)
EXTENDS Integers, Sequences, FiniteSets, TLC

(***************************************************************************)
(* Bounds of the model.                                                    *)
(***************************************************************************)
TaskIDs == {"t1", "t2"}
WorkerIDs == {"w1", "w2"}
Enqueuers == {"e1", "e2"}
Dequeuers == {"d1", "d2"}
Procs == Enqueuers \cup Dequeuers
\* largest MaxRetries a submitted task carries
MaxRetriesBound == 1
\* total number of Submit calls
MaxSubmits == 2
\* total number of Cancel calls
MaxCancels == 1
\* number of Enqueue calls made by the goroutines of the queue specification
MaxItems == 3
\* number of calls the sequential callers make
MaxCalls == 3
\* largest attempt index DefaultBackoff is called with
MaxAttempt == 128
\* websocket connections and goroutines that call Hub.Broadcast
Conns == {"c1", "c2"}
Broadcasters == {"b1", "b2"}
Goroutines == {"g1", "g2"}
WorkflowIDs == {"wf1", "wf2", "wf3"}
RunIDs == {"r1", "r2"}
TaskRunIDs == {"tr1"}
MockWorkerIDs == {"k1"}
Times == {"10:00", "11:00"}
\* time.Time cells the callers allocate
MaxCells == 2
\* the largest offset and limit passed to ListWorkflows
MaxPage == 4
\* number of Broadcast calls
MaxEvents == 2

(***************************************************************************)
(* domain.TaskStatus                                                       *)
(***************************************************************************)
TaskStatusPending == "pending"
TaskStatusQueued == "queued"
TaskStatusRunning == "running"
TaskStatusSucceeded == "succeeded"
TaskStatusFailed == "failed"
TaskStatusRetrying == "retrying"

\* the absent task: FindByID's ErrTaskNotFound, a worker holding nothing
NoTask ==
  [ID |-> "", sub |-> 0, cancelled |-> FALSE, inv |-> 0, Status |-> "", MaxRetries |-> 0,
   RetryCount |-> 0, StartedAt |-> FALSE, FinishedAt |-> FALSE, Error |-> FALSE]

\* a task as a caller hands it to Submit (validTask of the tests).  Three
\* fields are history, not fields of domain.Task: sub is the identity of the
\* object (the how-manieth object with this ID), cancelled says that Cancel
\* returned nil for the ID while the object was waiting in the queue, inv
\* counts the handler's invocations for the object
NewTask(id, n, maxRetries) ==
  [ID |-> id, sub |-> n, cancelled |-> FALSE, inv |-> 0, Status |-> TaskStatusPending,
   MaxRetries |-> maxRetries, RetryCount |-> 0, StartedAt |-> FALSE,
   FinishedAt |-> FALSE, Error |-> FALSE]

Key(t) == <<t.ID, t.sub>>
Keys == TaskIDs \X (1..MaxSubmits)

\* Task.CanRetry
CanRetry(t) == t.RetryCount < t.MaxRetries

\* Task.IsTerminal
IsTerminal(t) == t.Status = TaskStatusSucceeded \/ t.Status = TaskStatusFailed

(***************************************************************************)
(* MemQueue: buf is the slice, sig the channel of capacity 1 (the number   *)
(* of tokens it holds).                                                    *)
(***************************************************************************)
\* mutant: the task is put at the head of the slice
BufAppend_Front(b, task) == <<task>> \o b

\* q.buf = append(q.buf, task)
BufAppend(b, task) == Append(b, task)

\* mutant: the last task is returned while the first is removed
BufHead_Last(b) == b[Len(b)]

\* t := q.buf[0]
BufHead(b) == Head(b)

\* mutant: the head is returned but stays in the slice
BufRest_Keep(b) == b

\* q.buf = q.buf[1:]
BufRest(b) == Tail(b)

\* mutant: the send is dropped also when the channel is empty
SigSend_Drop(s) == s

\* select { case q.sig <- struct{}{}: default: }
SigSend(s) == 1

\* mutant: Dequeue does not re-signal after a pop
ReSignal_Never(remaining, s) == s

\* if remaining > 0 { ...re-signal... }
ReSignal(remaining, s) == IF remaining > 0 THEN SigSend(s) ELSE s

(***************************************************************************)
(* int64 (time.Duration, in nanoseconds) as its 8 bytes, least significant *)
(* first, in two's complement: Go's arithmetic wraps around silently.      *)
(***************************************************************************)
Zero64 == <<0, 0, 0, 0, 0, 0, 0, 0>>

\* the int64 of a small non-negative number (below 2^31)
FromInt(x) ==
  <<x % 256, (x \div 256) % 256, (x \div 65536) % 256, (x \div 16777216) % 256,
    0, 0, 0, 0>>

\* time.Duration(1 << uint(n)): a shift by 64 or more gives 0
Shl1(n) == [i \in 1..8 |-> IF n < 64 /\ n \div 8 = i - 1 THEN 2^(n % 8) ELSE 0]

RECURSIVE ColSum(_, _, _, _)
\* a[1]*b[k] + ... + a[i]*b[k-i+1]: the products that land in byte k
ColSum(a, b, k, i) == IF i = 0 THEN 0 ELSE a[i] * b[k - i + 1] + ColSum(a, b, k, i - 1)

RECURSIVE MulFrom(_, _, _, _)
\* the bytes k..8 of the product, given what the bytes below k carry over
MulFrom(a, b, k, carry) ==
  IF k > 8 THEN <<>>
  ELSE LET sum == ColSum(a, b, k, k) + carry
       IN <<sum % 256>> \o MulFrom(a, b, k + 1, sum \div 256)

\* a * b in int64: the low 64 bits of the product
Mul64(a, b) == MulFrom(a, b, 1, 0)

Neg64(a) == a[8] >= 128

RECURSIVE GtBytes(_, _, _)
\* a > b on the bytes i..1, most significant first
GtBytes(a, b, i) ==
  IF i = 0 THEN FALSE
  ELSE IF a[i] # b[i] THEN a[i] > b[i]
  ELSE GtBytes(a, b, i - 1)

\* a > b in int64
Gt64(a, b) == IF Neg64(a) # Neg64(b) THEN Neg64(b) ELSE GtBytes(a, b, 8)

\* time.Second, in nanoseconds
Second == 1000000000

(***************************************************************************)
(* Errors (domain/errors.go) as <<sentinel, text>>: errors.Is(err, E) is   *)
(* err[1] = E, and wrapping with %w keeps the sentinel and adds the text.  *)
(***************************************************************************)
Nil == <<"nil", "">>
ErrTaskNotFound == <<"ErrTaskNotFound", "">>
\* the error a failing repository backend returns
ErrRepo == <<"ErrRepo", "">>
\* fmt.Errorf("%w: %s", domain.ErrTaskInvalid, err)
ErrTaskInvalid(text) == <<"ErrTaskInvalid", text>>

\* the task argument of a call that takes none
NoInput == [ID |-> "", Name |-> "", Priority |-> 0, MaxRetries |-> 0]

\* no call made yet
NoCall == [op |-> "none", id |-> "", in |-> NoInput, err |-> Nil, repoFailed |-> FALSE,
           status |-> ""]

(***************************************************************************)
(* internal/domain entities and the mock repositories' records.  An absent *)
(* map key is a record with an empty ID.  FinishedAt is a *time.Time: 0    *)
(* for nil, else the address of a cell.                                    *)
(***************************************************************************)
StatusPending == "pending"
StatusRunning == "running"
StatusSuccess == "success"
StatusFailed == "failed"
WorkerStatusActive == "active"
WorkerStatusInactive == "inactive"
WorkerStatusIdle == "idle"

ErrNotFound == <<"ErrNotFound", "">>

AbsentWorkflow == [ID |-> "", Name |-> "", IsActive |-> FALSE]
AbsentRun == [ID |-> "", WorkflowID |-> "", Status |-> "", FinishedAt |-> 0]
AbsentTaskRun == [ID |-> "", WorkflowRunID |-> "", Status |-> "", FinishedAt |-> 0]
AbsentWorker == [ID |-> "", Status |-> "", LastHeartbeat |-> ""]
NoWorker == [ID |-> "", Status |-> "", Concurrency |-> 0, ActiveTasks |-> 0]

\* a Go slice: nil, or a list of items
NilSlice == [isNil |-> TRUE, items |-> <<>>]

NoRet ==
  [op |-> "none", id |-> "", err |-> Nil, list |-> NilSlice, all |-> NilSlice,
   offset |-> 0, limit |-> 0]

\* mutant: the case <-ctx.Done() is ready whether or not ctx is cancelled
CtxDone_Always(cancelled) == TRUE

\* mutant: the select never finds <-ctx.Done() ready
CtxDone_Never(cancelled) == FALSE

\* case <-ctx.Done(): ready once the context is cancelled
CtxDone(cancelled) == cancelled

VARIABLES
  buf,        \* MemQueue.buf
  sig,        \* MemQueue.sig: tokens in the channel, 0 or 1
  store,      \* memTaskRepo.store: task ID -> stored copy, or NoTask
  spc,        \* per task ID: where a Submit call for it stands
  sobj,       \* per task ID: the task object of the Submit call in progress
  subCount,   \* per task ID: Submit calls made
  cpc,        \* per task ID: where a Cancel call for it stands
  cloc,       \* per task ID: the copy Cancel loaded with FindByID
  ncancel,    \* Cancel calls made
  wpc,        \* per worker: position in Run / Dequeue / execute
  cur,        \* per worker: the task it dequeued
  rem,        \* per worker: Dequeue's local `remaining`
  ctxDone,    \* per worker: its context is cancelled
  qpc,        \* queue specification: per goroutine, position in Enqueue / Dequeue
  qrem,       \* queue specification: per goroutine, Dequeue's local `remaining`
  qval,       \* queue specification: per goroutine, Dequeue's local `t`
  qctx,       \* queue specification: per goroutine, its context is cancelled
  nextItem,   \* queue specification: the next task to enqueue
  retSeq,     \* history: <<goroutine, task>> in the order Dequeue returned them
  enqueuers,  \* history: goroutines that called Enqueue
  dequeuers,  \* history: goroutines that called Dequeue
  call,       \* sequential callers: the last call made and what it returned
  ncalls,     \* sequential callers: calls made
  attempt,    \* DefaultBackoff's argument in the last call of it, -1 before any
  delay,      \* what that call returned
  clients,    \* Hub.clients: the registered connections
  conn,       \* per connection: "none" (not dialled yet), "open", "closed"
  broken,     \* per connection: the peer is gone, writes and reads fail
  sws,        \* per connection: its ServeWS call is running
  bpc,        \* per Broadcast caller: position in Broadcast
  bev,        \* per Broadcast caller: the event of its call
  bctx,       \* per Broadcast caller: the context of its call is cancelled
  bpre,       \* history: the context was already cancelled when the call was made
  bsnap,      \* per Broadcast caller: the part of `clients` (the slice) still to do
  bset,       \* history: the connections in the snapshot of its call
  battempt,   \* history: the connections its call has written to, in order
  received,   \* history: per connection, the events written to it successfully
  dropped,    \* history: connections unregistered after a failed write
  nextEvent,  \* the next event to broadcast
  gpc,        \* lock discipline: per goroutine, the point of the code it is at
  held,       \* lock discipline: per goroutine, the locks it holds, as <<lock, mode>>
  workflows,  \* mock.WorkflowRepo.store: id -> stored copy, or AbsentWorkflow
  runs,       \* mock.WorkflowRunRepo.store: id -> stored copy, or AbsentRun
  taskRuns,   \* mock.TaskRunRepo.store: id -> stored copy, or AbsentTaskRun
  mworkers,   \* mock.WorkerRepo.store: id -> stored copy, or AbsentWorker
  cells,      \* the time.Time values that *time.Time pointers point to, by address
  mine,       \* the entity the caller holds: the one it passed, or the one returned
  ptr,        \* the *time.Time the caller holds, 0 for none
  ret,        \* the last step of the caller and what the call returned
  sent,       \* the events handed to hub.Broadcast, in order
  hpc,        \* Handler.triggerWorkflow: where the request stands
  hrun,       \* Handler.triggerWorkflow: the run TriggerWorkflow returned
  wstore,     \* the worker repository: worker ID -> saved record, or NoWorker
  hb,         \* per worker: its heartbeat loop has been started
  runErr,     \* per worker: what Run returned, Nil while it runs
  now,        \* the wall clock, in clock units
  hbpc,       \* heartbeatLoop: "off", "select", "save", "done"; "failed" when Run's Save failed
  hbNext,     \* the time at which the ticker fires next
  hbCtx,      \* the worker's context is cancelled
  workerRec,  \* the worker's record in the repository, or AbsentRec
  wrk,        \* heartbeatLoop: the copy FindByID returned
  lastTickOk, \* history: the most recent heartbeat update reached the repository
  hbErrs,     \* history: the number of ticks on which a repository call failed
  hbAfterErr, \* history: the number of ticks attempted after a failed one
  busy,       \* the worker is in the middle of executing a handler
  aworkers,   \* WorkerRepo.store with heartbeat times on the clock: ID -> record
  listed,     \* the records the last ListActive call returned
  listedAt,   \* the time of the last ListActive call
  bdelay,     \* per worker: the delay w.backoff returned, while the worker waits for it
  qlen,       \* what the Len call in progress returns, -1 when none is
  hkMounted,  \* useWebSocket: "no", "yes", "unmounted"
  wsState,    \* the WebSockets created so far, in order: their readyState
  hkTimer,    \* a reconnect timer is pending
  wsAtUnmount, \* history: the number of WebSockets created when the hook was unmounted
  hkInvalidated \* the number of messages on which the queries were invalidated

sysVars == <<store, spc, sobj, subCount, cpc, cloc, ncancel, wpc, cur, rem, ctxDone>>
queueVars == <<qpc, qrem, qval, qctx, nextItem, retSeq, enqueuers, dequeuers>>
apiVars == <<call, ncalls>>
backoffVars == <<attempt, delay>>
hubVars == <<clients, conn, broken, sws, bpc, bev, bctx, bpre, bsnap, bset, battempt, received,
            dropped, nextEvent>>
lockVars == <<gpc, held>>
mockVars == <<workflows, runs, taskRuns, mworkers, cells, mine, ptr, ret>>
svcVars == <<sent, hpc, hrun>>
beatVars == <<now, hbpc, hbNext, hbCtx, workerRec, wrk, lastTickOk, hbErrs, hbAfterErr, busy>>
liveVars == <<aworkers, listed, listedAt>>
retryVars == <<bdelay>>
lenVars == <<qlen>>
hookVars == <<hkMounted, wsState, hkTimer, wsAtUnmount, hkInvalidated>>
lateVars == <<beatVars, liveVars, retryVars, lenVars, hookVars>>
runVars == <<wstore, hb, runErr, lateVars>>
extVars == <<lockVars, mockVars, svcVars, runVars>>
otherVars == <<buf, sig, sysVars, queueVars, apiVars, backoffVars, hubVars>>
restVars == <<apiVars, backoffVars, hubVars, extVars>>
vars == <<buf, sig, sysVars, queueVars, restVars>>

Init ==
  /\ buf = <<>>
  /\ sig = 0
  /\ store = [t \in TaskIDs |-> NoTask]
  /\ spc = [t \in TaskIDs |-> "idle"]
  /\ sobj = [t \in TaskIDs |-> NoTask]
  /\ subCount = [t \in TaskIDs |-> 0]
  /\ cpc = [t \in TaskIDs |-> "idle"]
  /\ cloc = [t \in TaskIDs |-> NoTask]
  /\ ncancel = 0
  /\ wpc = [w \in WorkerIDs |-> "register"]
  /\ cur = [w \in WorkerIDs |-> NoTask]
  /\ rem = [w \in WorkerIDs |-> 0]
  /\ ctxDone = [w \in WorkerIDs |-> FALSE]
  /\ qpc = [p \in Procs |-> "idle"]
  /\ qrem = [p \in Dequeuers |-> 0]
  /\ qval = [p \in Dequeuers |-> 0]
  /\ qctx = [p \in Dequeuers |-> FALSE]
  /\ nextItem = 1
  /\ retSeq = <<>>
  /\ enqueuers = {}
  /\ dequeuers = {}
  /\ call = NoCall
  /\ ncalls = 0
  /\ attempt = -1
  /\ delay = Zero64
  /\ clients = {}
  /\ conn = [c \in Conns |-> "none"]
  /\ broken = [c \in Conns |-> FALSE]
  /\ sws = [c \in Conns |-> FALSE]
  /\ bpc = [b \in Broadcasters |-> "idle"]
  /\ bev = [b \in Broadcasters |-> 0]
  /\ bctx = [b \in Broadcasters |-> FALSE]
  /\ bpre = [b \in Broadcasters |-> FALSE]
  /\ bsnap = [b \in Broadcasters |-> <<>>]
  /\ bset = [b \in Broadcasters |-> {}]
  /\ battempt = [b \in Broadcasters |-> <<>>]
  /\ received = [c \in Conns |-> <<>>]
  /\ dropped = {}
  /\ nextEvent = 1
  /\ gpc = [g \in Goroutines |-> "idle"]
  /\ held = [g \in Goroutines |-> {}]
  /\ workflows = [id \in WorkflowIDs |-> AbsentWorkflow]
  /\ runs = [id \in RunIDs |-> AbsentRun]
  /\ taskRuns = [id \in TaskRunIDs |-> AbsentTaskRun]
  /\ mworkers = [id \in MockWorkerIDs |-> AbsentWorker]
  /\ cells = <<>>
  /\ mine = AbsentRun
  /\ ptr = 0
  /\ ret = NoRet
  /\ sent = <<>>
  /\ hpc = "idle"
  /\ hrun = AbsentRun
  /\ wstore = [w \in WorkerIDs |-> NoWorker]
  /\ hb = [w \in WorkerIDs |-> FALSE]
  /\ runErr = [w \in WorkerIDs |-> Nil]
  /\ now = 0
  /\ hbpc = "off"
  /\ hbNext = 0
  /\ hbCtx = FALSE
  /\ workerRec = [present |-> FALSE, Status |-> "", LastHeartAt |-> 0]
  /\ wrk = [present |-> FALSE, Status |-> "", LastHeartAt |-> 0]
  /\ lastTickOk = TRUE
  /\ hbErrs = 0
  /\ hbAfterErr = 0
  /\ busy = FALSE
  /\ aworkers = [id \in MockWorkerIDs |-> [ID |-> "", Status |-> "", LastHeartbeat |-> 0]]
  /\ listed = {}
  /\ listedAt = 0
  /\ bdelay = [w \in WorkerIDs |-> Zero64]
  /\ qlen = -1
  /\ hkMounted = "no"
  /\ wsState = <<>>
  /\ hkTimer = FALSE
  /\ wsAtUnmount = 0
  /\ hkInvalidated = 0

(***************************************************************************)
(* memTaskRepo: Save stores a copy under the task's ID, FindByID returns a *)
(* copy or ErrTaskNotFound (NoTask); neither looks at the context.         *)
(***************************************************************************)
\* cp := *t: the fields of domain.Task, without the history fields
Copy(task) == [task EXCEPT !.sub = 0, !.cancelled = FALSE, !.inv = 0]

Save(st, task) == [st EXCEPT ![task.ID] = Copy(task)]

FindByID(st, id) == st[id]

\* the number of Submit calls made so far
TotalSubmits == Cardinality({k \in Keys : k[2] <= subCount[k[1]]})

(***************************************************************************)
(* Scheduler.Submit(ctx, task)                                             *)
(***************************************************************************)
\* mutant: Submit leaves the status as the caller set it
SubmitPrepare_Pending(task) == task

\* lines 107-112: what Submit writes into the task before it saves it
SubmitPrepare(task) == [task EXCEPT !.Status = TaskStatusQueued]

\* lines 104-115: Validate (the task is valid), set Queued, tasks.Save
SubmitSave(id, maxRetries) ==
  /\ spc[id] = "idle"
  /\ TotalSubmits < MaxSubmits
  /\ LET task == SubmitPrepare(NewTask(id, subCount[id] + 1, maxRetries))
     IN /\ store' = Save(store, task)
        /\ sobj' = [sobj EXCEPT ![id] = task]
  /\ subCount' = [subCount EXCEPT ![id] = @ + 1]
  /\ spc' = [spc EXCEPT ![id] = "enq"]
  /\ UNCHANGED <<buf, sig, cpc, cloc, ncancel, wpc, cur, rem, ctxDone, queueVars, restVars>>

\* lines 104-115 once MaxSubmits calls have been counted: the same call, made
\* for an ID none of whose objects is still in Submit's, the queue's or a
\* worker's hands; the history counter stays where it is and the new object
\* takes the identity of the last one with this ID
SubmitSaveAgain(id, maxRetries) ==
  /\ spc[id] = "idle"
  /\ TotalSubmits = MaxSubmits
  /\ subCount[id] > 0
  /\ \A i \in 1..Len(buf) : buf[i].ID # id
  /\ \A w \in WorkerIDs : cur[w].ID # id
  /\ LET task == SubmitPrepare(NewTask(id, subCount[id], maxRetries))
     IN /\ store' = Save(store, task)
        /\ sobj' = [sobj EXCEPT ![id] = task]
  /\ spc' = [spc EXCEPT ![id] = "enq"]
  /\ UNCHANGED <<buf, sig, subCount, cpc, cloc, ncancel, wpc, cur, rem, ctxDone, queueVars, restVars>>

\* line 116 -> Enqueue lines 28-30: the locked append
SubmitEnqueue(id) ==
  /\ spc[id] = "enq"
  /\ buf' = BufAppend(buf, sobj[id])
  /\ spc' = [spc EXCEPT ![id] = "sig"]
  /\ UNCHANGED <<sig, store, sobj, subCount, cpc, cloc, ncancel, wpc, cur, rem, ctxDone,
                 queueVars, restVars>>

\* line 116 -> Enqueue lines 31-35: the non-blocking send; Submit returns nil
SubmitSignal(id) ==
  /\ spc[id] = "sig"
  /\ sig' = SigSend(sig)
  /\ sobj' = [sobj EXCEPT ![id] = NoTask]
  /\ spc' = [spc EXCEPT ![id] = "idle"]
  /\ UNCHANGED <<buf, store, subCount, cpc, cloc, ncancel, wpc, cur, rem, ctxDone, queueVars, restVars>>

(***************************************************************************)
(* Scheduler.Cancel(ctx, taskID)                                           *)
(***************************************************************************)
\* mutant: Cancel saves the copy as it loaded it
CancelMark_Keep(task) == task

\* lines 129-130: what Cancel writes into the copy it loaded
CancelMark(task) == [task EXCEPT !.Status = TaskStatusFailed]

\* history: Cancel returned nil for this ID; every object with the ID that is
\* waiting in the queue at that moment is marked
MarkWaiting(b, id) ==
  [i \in 1..Len(b) |-> IF b[i].ID = id THEN [b[i] EXCEPT !.cancelled = TRUE] ELSE b[i]]

\* lines 122-128: FindByID; not found returns the error, terminal returns nil
CancelLoad(id) ==
  /\ cpc[id] = "idle"
  /\ ncancel < MaxCancels
  /\ ncancel' = ncancel + 1
  /\ LET task == FindByID(store, id)
     IN IF task = NoTask
          THEN UNCHANGED <<cpc, cloc, buf>>
          ELSE IF IsTerminal(task)
            THEN /\ buf' = MarkWaiting(buf, id)
                 /\ UNCHANGED <<cpc, cloc>>
            ELSE /\ cloc' = [cloc EXCEPT ![id] = task]
                 /\ cpc' = [cpc EXCEPT ![id] = "loaded"]
                 /\ UNCHANGED buf
  /\ UNCHANGED <<sig, store, spc, sobj, subCount, wpc, cur, rem, ctxDone, queueVars, restVars>>

\* lines 129-131: Status = Failed, tasks.Save; Cancel returns nil
CancelSave(id) ==
  /\ cpc[id] = "loaded"
  /\ store' = Save(store, CancelMark(cloc[id]))
  /\ cloc' = [cloc EXCEPT ![id] = NoTask]
  /\ cpc' = [cpc EXCEPT ![id] = "idle"]
  /\ buf' = MarkWaiting(buf, id)
  /\ UNCHANGED <<sig, spc, sobj, subCount, ncancel, wpc, cur, rem, ctxDone, queueVars, restVars>>

(***************************************************************************)
(* Worker.Run and Worker.execute                                           *)
(***************************************************************************)
\* DefaultBackoff, lines 24-30, in int64 nanoseconds
DefaultBackoff(n) ==
  LET d == Mul64(Shl1(n), FromInt(Second))
      cap == Mul64(FromInt(30), FromInt(Second))
  IN IF Gt64(d, cap) THEN cap ELSE d

\* the delays w.backoff can return: DefaultBackoff's, or 0 from the zero
\* backoff the tests inject with WithBackoff
BackoffDelays(n) == {DefaultBackoff(n), Zero64}

\* execute lines 129-132
MarkRunning(task) == [task EXCEPT !.Status = TaskStatusRunning, !.StartedAt = TRUE]

\* mutant: the error text of the last failure is kept
MarkSucceeded_KeepError(task) ==
  [task EXCEPT !.FinishedAt = TRUE, !.Status = TaskStatusSucceeded]

\* execute lines 140-143
MarkSucceeded(task) ==
  [task EXCEPT !.FinishedAt = TRUE, !.Status = TaskStatusSucceeded, !.Error = FALSE]

\* execute lines 145-148
MarkRetrying(task) ==
  [task EXCEPT !.Error = TRUE, !.RetryCount = @ + 1, !.Status = TaskStatusRetrying]

\* execute lines 145, 163-164
MarkFailed(task) ==
  [task EXCEPT !.Error = TRUE, !.FinishedAt = TRUE, !.Status = TaskStatusFailed]

\* Run lines 98-112: register (workers.Save), start the heartbeat loop
WorkerRegister(w) ==
  /\ wpc[w] = "register"
  /\ wpc' = [wpc EXCEPT ![w] = "lock"]
  /\ UNCHANGED <<buf, sig, store, spc, sobj, subCount, cpc, cloc, ncancel, cur, rem, ctxDone,
                 queueVars, restVars>>

\* Run line 115 -> Dequeue lines 42-47 and 57: the locked check and pop
WorkerDequeueLock(w) ==
  /\ wpc[w] = "lock"
  /\ IF Len(buf) > 0
       THEN /\ cur' = [cur EXCEPT ![w] = BufHead(buf)]
            /\ buf' = BufRest(buf)
            /\ rem' = [rem EXCEPT ![w] = Len(buf')]
            /\ wpc' = [wpc EXCEPT ![w] = "resig"]
       ELSE /\ wpc' = [wpc EXCEPT ![w] = "wait"]
            /\ UNCHANGED <<buf, cur, rem>>
  /\ UNCHANGED <<sig, store, spc, sobj, subCount, cpc, cloc, ncancel, ctxDone, queueVars, restVars>>

\* Dequeue lines 48-55: re-signal when tasks remain; Dequeue returns the task
WorkerDequeueReturn(w) ==
  /\ wpc[w] = "resig"
  /\ sig' = ReSignal(rem[w], sig)
  /\ rem' = [rem EXCEPT ![w] = 0]
  /\ wpc' = [wpc EXCEPT ![w] = "exec"]
  /\ UNCHANGED <<buf, store, spc, sobj, subCount, cpc, cloc, ncancel, cur, ctxDone, queueVars, restVars>>

\* Dequeue lines 58-62: select, the case <-q.sig
WorkerDequeueWake(w) ==
  /\ wpc[w] = "wait"
  /\ sig > 0
  /\ sig' = sig - 1
  /\ wpc' = [wpc EXCEPT ![w] = "lock"]
  /\ UNCHANGED <<buf, store, spc, sobj, subCount, cpc, cloc, ncancel, cur, rem, ctxDone,
                 queueVars, restVars>>

\* Dequeue lines 58-60: the case <-ctx.Done() returns ErrQueueEmpty, and Run
\* lines 116-120 returns nil
WorkerDequeueCancelled(w) ==
  /\ wpc[w] = "wait"
  /\ ctxDone[w]
  /\ wpc' = [wpc EXCEPT ![w] = "exited"]
  /\ UNCHANGED <<buf, sig, store, spc, sobj, subCount, cpc, cloc, ncancel, cur, rem, ctxDone,
                 queueVars, restVars>>

\* execute lines 129-135: Status = Running, tasks.Save, the handler is invoked
ExecuteStart(w) ==
  /\ wpc[w] = "exec"
  /\ LET task == MarkRunning(cur[w])
     IN /\ store' = Save(store, task)
        /\ cur' = [cur EXCEPT ![w] = [task EXCEPT !.inv = @ + 1]]
  /\ wpc' = [wpc EXCEPT ![w] = "handler"]
  /\ UNCHANGED <<buf, sig, spc, sobj, subCount, cpc, cloc, ncancel, rem, ctxDone, queueVars, restVars>>

\* execute lines 135-143 and 166: the handler returns nil
HandlerSucceeds(w) ==
  /\ wpc[w] = "handler"
  /\ store' = Save(store, MarkSucceeded(cur[w]))
  /\ cur' = [cur EXCEPT ![w] = NoTask]
  /\ wpc' = [wpc EXCEPT ![w] = "lock"]
  /\ UNCHANGED <<buf, sig, spc, sobj, subCount, cpc, cloc, ncancel, rem, ctxDone, queueVars, restVars>>

retryRest == <<apiVars, backoffVars, hubVars, lockVars, mockVars, svcVars, wstore, hb, runErr,
               beatVars, liveVars, lenVars, hookVars>>

\* mutant: the attempt index is the retry count itself
BackoffIndex_OffByOne(task) == task.RetryCount

\* execute line 151: w.backoff(task.RetryCount - 1)
BackoffIndex(task) == task.RetryCount - 1

\* execute lines 135-152: the handler returns an error and the task can be
\* retried: RetryCount++, Status = Retrying, tasks.Save, delay := w.backoff(...)
HandlerFailsRetry(w) ==
  /\ wpc[w] = "handler"
  /\ CanRetry(cur[w])
  /\ LET task == MarkRetrying(cur[w])
     IN /\ store' = Save(store, task)
        /\ cur' = [cur EXCEPT ![w] = task]
        /\ \E d \in BackoffDelays(BackoffIndex(task)) :
             IF Gt64(d, Zero64)
               THEN /\ wpc' = [wpc EXCEPT ![w] = "backoff"]
                    /\ bdelay' = [bdelay EXCEPT ![w] = d]
               ELSE /\ wpc' = [wpc EXCEPT ![w] = "reenq"]
                    /\ UNCHANGED bdelay
  /\ UNCHANGED <<buf, sig, spc, sobj, subCount, cpc, cloc, ncancel, rem, ctxDone, queueVars,
                 retryRest>>

\* execute lines 135-146 and 163-166: the handler returns an error and no
\* retry is left: Status = Failed, tasks.Save
HandlerFailsFinal(w) ==
  /\ wpc[w] = "handler"
  /\ ~CanRetry(cur[w])
  /\ store' = Save(store, MarkFailed(cur[w]))
  /\ cur' = [cur EXCEPT ![w] = NoTask]
  /\ wpc' = [wpc EXCEPT ![w] = "lock"]
  /\ UNCHANGED <<buf, sig, spc, sobj, subCount, cpc, cloc, ncancel, rem, ctxDone, queueVars, restVars>>

\* execute lines 153-157: select, the case <-time.After(delay)
BackoffElapsed(w) ==
  /\ wpc[w] = "backoff"
  /\ wpc' = [wpc EXCEPT ![w] = "reenq"]
  /\ bdelay' = [bdelay EXCEPT ![w] = Zero64]
  /\ UNCHANGED <<buf, sig, store, spc, sobj, subCount, cpc, cloc, ncancel, cur, rem, ctxDone,
                 queueVars, retryRest>>

\* execute lines 153-155: select, the case <-ctx.Done(): return
BackoffCancelled(w) ==
  /\ wpc[w] = "backoff"
  /\ ctxDone[w]
  /\ cur' = [cur EXCEPT ![w] = NoTask]
  /\ wpc' = [wpc EXCEPT ![w] = "lock"]
  /\ bdelay' = [bdelay EXCEPT ![w] = Zero64]
  /\ UNCHANGED <<buf, sig, store, spc, sobj, subCount, cpc, cloc, ncancel, rem, ctxDone,
                 queueVars, retryRest>>

\* execute line 160 -> Enqueue lines 28-30: the locked append
ReEnqueueAppend(w) ==
  /\ wpc[w] = "reenq"
  /\ buf' = BufAppend(buf, cur[w])
  /\ cur' = [cur EXCEPT ![w] = NoTask]
  /\ wpc' = [wpc EXCEPT ![w] = "reenqsig"]
  /\ UNCHANGED <<sig, store, spc, sobj, subCount, cpc, cloc, ncancel, rem, ctxDone, queueVars, restVars>>

\* execute lines 160-161 -> Enqueue lines 31-35: the non-blocking send; return
ReEnqueueSignal(w) ==
  /\ wpc[w] = "reenqsig"
  /\ sig' = SigSend(sig)
  /\ wpc' = [wpc EXCEPT ![w] = "lock"]
  /\ UNCHANGED <<buf, store, spc, sobj, subCount, cpc, cloc, ncancel, cur, rem, ctxDone,
                 queueVars, restVars>>

\* the context passed to Run is cancelled (SIGTERM in cmd/worker/main.go)
WorkerCancel(w) ==
  /\ ~ctxDone[w]
  /\ wpc[w] # "exited"
  /\ ctxDone' = [ctxDone EXCEPT ![w] = TRUE]
  /\ UNCHANGED <<buf, sig, store, spc, sobj, subCount, cpc, cloc, ncancel, wpc, cur, rem, queueVars, restVars>>

SchedulerStep ==
  \/ \E id \in TaskIDs, maxRetries \in 0..MaxRetriesBound : SubmitSave(id, maxRetries)
  \/ \E id \in TaskIDs : SubmitEnqueue(id)
  \/ \E id \in TaskIDs : SubmitSignal(id)
  \/ \E id \in TaskIDs : CancelLoad(id)
  \/ \E id \in TaskIDs : CancelSave(id)

WorkerStep(w) ==
  \/ WorkerRegister(w)
  \/ WorkerDequeueLock(w)
  \/ WorkerDequeueReturn(w)
  \/ WorkerDequeueWake(w)
  \/ WorkerDequeueCancelled(w)
  \/ ExecuteStart(w)
  \/ HandlerSucceeds(w)
  \/ HandlerFailsRetry(w)
  \/ HandlerFailsFinal(w)
  \/ BackoffElapsed(w)
  \/ BackoffCancelled(w)
  \/ ReEnqueueAppend(w)
  \/ ReEnqueueSignal(w)

Next ==
  \/ SchedulerStep
  \/ \E w \in WorkerIDs : WorkerStep(w)
  \/ \E w \in WorkerIDs : WorkerCancel(w)

Spec == Init /\ [][Next]_vars

(***************************************************************************)
(* The queue on its own: goroutines that call Enqueue and Dequeue.         *)
(***************************************************************************)
\* Enqueue, lines 28-30: the locked append (the call enqueues task nextItem)
QEnqueueAppend(p) ==
  /\ qpc[p] = "idle"
  /\ nextItem <= MaxItems
  /\ buf' = BufAppend(buf, nextItem)
  /\ nextItem' = nextItem + 1
  /\ enqueuers' = enqueuers \cup {p}
  /\ qpc' = [qpc EXCEPT ![p] = "enqsig"]
  /\ UNCHANGED <<sig, sysVars, restVars, qrem, qval, qctx, retSeq, dequeuers>>

\* Enqueue, lines 31-35: the non-blocking send, then return nil
QEnqueueSignal(p) ==
  /\ qpc[p] = "enqsig"
  /\ sig' = SigSend(sig)
  /\ qpc' = [qpc EXCEPT ![p] = "idle"]
  /\ UNCHANGED <<buf, sysVars, restVars, qrem, qval, qctx, nextItem, retSeq, enqueuers, dequeuers>>

\* a goroutine calls Dequeue (line 40)
QDequeueCall(p) ==
  /\ qpc[p] = "idle"
  /\ dequeuers' = dequeuers \cup {p}
  /\ qpc' = [qpc EXCEPT ![p] = "lock"]
  /\ UNCHANGED <<buf, sig, sysVars, restVars, qrem, qval, qctx, nextItem, retSeq, enqueuers>>

\* Dequeue, lines 42-47 and 57: the locked check, and pop when non-empty
QDequeueLock(p) ==
  /\ qpc[p] = "lock"
  /\ IF Len(buf) > 0
       THEN /\ qval' = [qval EXCEPT ![p] = BufHead(buf)]
            /\ buf' = BufRest(buf)
            /\ qrem' = [qrem EXCEPT ![p] = Len(buf')]
            /\ qpc' = [qpc EXCEPT ![p] = "resig"]
       ELSE /\ qpc' = [qpc EXCEPT ![p] = "wait"]
            /\ UNCHANGED <<buf, qval, qrem>>
  /\ UNCHANGED <<sig, sysVars, restVars, qctx, nextItem, retSeq, enqueuers, dequeuers>>

\* Dequeue, lines 48-55: re-signal when tasks remain, then return t
QDequeueReturn(p) ==
  /\ qpc[p] = "resig"
  /\ sig' = ReSignal(qrem[p], sig)
  /\ retSeq' = Append(retSeq, <<p, qval[p]>>)
  /\ qpc' = [qpc EXCEPT ![p] = "idle"]
  /\ qval' = [qval EXCEPT ![p] = 0]
  /\ qrem' = [qrem EXCEPT ![p] = 0]
  /\ UNCHANGED <<buf, sysVars, restVars, qctx, nextItem, enqueuers, dequeuers>>

\* Dequeue, lines 58-62: select, the case <-q.sig
QDequeueWake(p) ==
  /\ qpc[p] = "wait"
  /\ sig > 0
  /\ sig' = sig - 1
  /\ qpc' = [qpc EXCEPT ![p] = "lock"]
  /\ UNCHANGED <<buf, sysVars, restVars, qrem, qval, qctx, nextItem, retSeq, enqueuers, dequeuers>>

\* Dequeue, lines 58-60: select, the case <-ctx.Done(): return ErrQueueEmpty
QDequeueCancelled(p) ==
  /\ qpc[p] = "wait"
  /\ CtxDone(qctx[p])
  /\ qpc' = [qpc EXCEPT ![p] = "idle"]
  /\ UNCHANGED <<buf, sig, sysVars, restVars, qrem, qval, qctx, nextItem, retSeq, enqueuers, dequeuers>>

\* the caller cancels the context it passed to Dequeue
QCancel(p) ==
  /\ ~qctx[p]
  /\ qctx' = [qctx EXCEPT ![p] = TRUE]
  /\ UNCHANGED <<buf, sig, sysVars, restVars, qpc, qrem, qval, nextItem, retSeq, enqueuers, dequeuers>>

QueueNext ==
  \/ \E p \in Enqueuers : QEnqueueAppend(p) \/ QEnqueueSignal(p)
  \/ \E p \in Dequeuers :
       \/ QDequeueCall(p)
       \/ QDequeueLock(p)
       \/ QDequeueReturn(p)
       \/ QDequeueWake(p)
       \/ QDequeueCancelled(p)
       \/ QCancel(p)

SpecQueue == Init /\ [][QueueNext]_vars

\* Len, lines 67-72: n := len(q.buf) under the lock
QLenCall ==
  /\ qlen = -1
  /\ qlen' = Len(buf)
  /\ UNCHANGED <<buf, sig, sysVars, queueVars, apiVars, backoffVars, hubVars, lockVars, mockVars,
                 svcVars, wstore, hb, runErr, beatVars, liveVars, retryVars, hookVars>>

\* the caller of Len has its result
QLenReturn ==
  /\ qlen # -1
  /\ qlen' = -1
  /\ UNCHANGED <<buf, sig, sysVars, queueVars, apiVars, backoffVars, hubVars, lockVars, mockVars,
                 svcVars, wstore, hb, runErr, beatVars, liveVars, retryVars, hookVars>>

\* the queue with goroutines that call Enqueue, Dequeue and Len
QueueLenNext == QueueNext \/ QLenCall \/ QLenReturn

SpecQueueLen == Init /\ [][QueueLenNext]_vars

(***************************************************************************)
(* The scheduler's API and a worker used by one caller at a time: every    *)
(* call runs from its first line to its return before the next starts.    *)
(* The repository is any domain.TaskRepository, so Save and FindByID may   *)
(* return a backend error (saveFails, findFails); a failed Save stores     *)
(* nothing.                                                                *)
(***************************************************************************)
PriorityLow == 1
PriorityHigh == 10

\* the tasks callers hand to Submit: the fields Task.Validate looks at
TaskInputs ==
  [ID : TaskIDs \cup {""}, Name : {"", "extract"},
   Priority : {PriorityLow - 1, PriorityLow, PriorityHigh, PriorityHigh + 1},
   MaxRetries : -1..MaxRetriesBound]

\* mutant: the MaxRetries rule is not checked
Validate_NoRetriesRule(t) ==
  IF t.ID = "" THEN "task ID must not be empty"
  ELSE IF t.Name = "" THEN "task Name must not be empty"
  ELSE IF t.Priority < PriorityLow \/ t.Priority > PriorityHigh
    THEN "task Priority must be between 1 and 10"
  ELSE ""

\* Task.Validate: the text of the first violated rule, "" for nil
Validate(t) ==
  IF t.ID = "" THEN "task ID must not be empty"
  ELSE IF t.Name = "" THEN "task Name must not be empty"
  ELSE IF t.Priority < PriorityLow \/ t.Priority > PriorityHigh
    THEN "task Priority must be between 1 and 10"
  ELSE IF t.MaxRetries < 0 THEN "task MaxRetries must not be negative"
  ELSE ""

\* the record of a call that has returned
Called(op, id, in, err, repoFailed, status) ==
  [op |-> op, id |-> id, in |-> in, err |-> err, repoFailed |-> repoFailed,
   status |-> status]

\* Scheduler.Submit, lines 103-117, and the Enqueue it calls
ApiSubmit(in, saveFails) ==
  /\ ncalls < MaxCalls
  /\ ncalls' = ncalls + 1
  /\ IF Validate(in) # ""
       THEN /\ call' = Called("Submit", in.ID, in, ErrTaskInvalid(Validate(in)), FALSE, "")
            /\ UNCHANGED <<store, buf, sig>>
       ELSE IF saveFails
         THEN /\ call' = Called("Submit", in.ID, in, ErrRepo, TRUE, "")
              /\ UNCHANGED <<store, buf, sig>>
         ELSE LET task == SubmitPrepare(NewTask(in.ID, 1, in.MaxRetries))
              IN /\ store' = Save(store, task)
                 /\ buf' = BufAppend(buf, task)
                 /\ sig' = SigSend(sig)
                 /\ call' = Called("Submit", in.ID, in, Nil, FALSE, "")
  /\ UNCHANGED <<spc, sobj, subCount, cpc, cloc, ncancel, wpc, cur, rem, ctxDone, queueVars, backoffVars, hubVars, extVars>>

\* Scheduler.Cancel, lines 121-132
ApiCancel(id, findFails, saveFails) ==
  /\ ncalls < MaxCalls
  /\ ncalls' = ncalls + 1
  /\ LET task == FindByID(store, id)
     IN IF findFails
          THEN /\ call' = Called("Cancel", id, NoInput, ErrRepo, TRUE, "")
               /\ UNCHANGED <<store, buf>>
        ELSE IF task = NoTask
          THEN /\ call' = Called("Cancel", id, NoInput, ErrTaskNotFound, FALSE, "")
               /\ UNCHANGED <<store, buf>>
        ELSE IF IsTerminal(task)
          THEN /\ call' = Called("Cancel", id, NoInput, Nil, FALSE, "")
               /\ buf' = MarkWaiting(buf, id)
               /\ UNCHANGED store
        ELSE IF saveFails
          THEN /\ call' = Called("Cancel", id, NoInput, ErrRepo, TRUE, "")
               /\ UNCHANGED <<store, buf>>
        ELSE /\ store' = Save(store, CancelMark(task))
             /\ buf' = MarkWaiting(buf, id)
             /\ call' = Called("Cancel", id, NoInput, Nil, FALSE, "")
  /\ UNCHANGED <<sig, spc, sobj, subCount, cpc, cloc, ncancel, wpc, cur, rem, ctxDone,
                 queueVars, backoffVars, hubVars, extVars>>

\* Scheduler.Status, lines 135-141
ApiStatus(id, findFails) ==
  /\ ncalls < MaxCalls
  /\ ncalls' = ncalls + 1
  /\ LET task == FindByID(store, id)
     IN IF findFails
          THEN call' = Called("Status", id, NoInput, ErrRepo, TRUE, "")
        ELSE IF task = NoTask
          THEN call' = Called("Status", id, NoInput, ErrTaskNotFound, FALSE, "")
        ELSE call' = Called("Status", id, NoInput, Nil, FALSE, task.Status)
  /\ UNCHANGED <<buf, sig, sysVars, queueVars, backoffVars, hubVars, extVars>>

\* one round of Run's loop, lines 115-123: Dequeue finds a task (queue.go
\* lines 42-55) and execute (lines 128-167) runs it to its return, the backoff
\* timer firing if there is one.  execute discards what Save returns and has
\* no result of its own.
ApiExecute(handlerFails, saveFails1, saveFails2) ==
  /\ ncalls < MaxCalls
  /\ ncalls' = ncalls + 1
  /\ Len(buf) > 0
  /\ LET t == BufHead(buf)
         buf1 == BufRest(buf)
         sig1 == ReSignal(Len(buf1), sig)
         running == [MarkRunning(t) EXCEPT !.inv = @ + 1]
         store1 == IF saveFails1 THEN store ELSE Save(store, running)
         done == IF ~handlerFails THEN MarkSucceeded(running)
                 ELSE IF CanRetry(running) THEN MarkRetrying(running)
                 ELSE MarkFailed(running)
     IN /\ store' = IF saveFails2 THEN store1 ELSE Save(store1, done)
        /\ IF handlerFails /\ CanRetry(running)
             THEN /\ buf' = BufAppend(buf1, done)
                  /\ sig' = SigSend(sig1)
             ELSE /\ buf' = buf1
                  /\ sig' = sig1
        /\ call' = Called("execute", t.ID, NoInput, Nil, saveFails1 \/ saveFails2, "")
  /\ UNCHANGED <<spc, sobj, subCount, cpc, cloc, ncancel, wpc, cur, rem, ctxDone, queueVars, backoffVars, hubVars, extVars>>

ApiNext ==
  \/ \E in \in TaskInputs, saveFails \in BOOLEAN : ApiSubmit(in, saveFails)
  \/ \E id \in TaskIDs, findFails, saveFails \in BOOLEAN : ApiCancel(id, findFails, saveFails)
  \/ \E id \in TaskIDs, findFails \in BOOLEAN : ApiStatus(id, findFails)
  \/ \E handlerFails, saveFails1, saveFails2 \in BOOLEAN :
       ApiExecute(handlerFails, saveFails1, saveFails2)

SpecAPI == Init /\ [][ApiNext]_vars

(***************************************************************************)
(* DefaultBackoff on its own, called with any attempt index.               *)
(***************************************************************************)
BackoffCall(n) ==
  /\ attempt' = n
  /\ delay' = DefaultBackoff(n)
  /\ UNCHANGED <<buf, sig, sysVars, queueVars, apiVars, hubVars, extVars>>

BackoffNext == \E n \in 0..MaxAttempt : BackoffCall(n)

SpecBackoff == Init /\ [][BackoffNext]_vars

(***************************************************************************)
(* websocket.Hub (src/unnamed/part_003, lines 113-215).  A connection's    *)
(* write fails when its peer is gone or it has been closed.                *)
(***************************************************************************)
\* the orders in which `for c := range h.clients` can visit the map
Orders(S) ==
  {order \in [1..Cardinality(S) -> S] :
     \A i, j \in 1..Cardinality(S) : i # j => order[i] # order[j]}

\* unregister, lines 209-212: delete(h.clients, c)
Unregister(cs, c) == cs \ {c}

\* c.WriteMessage returns nil
WriteSucceeds(c) == conn[c] = "open" /\ ~broken[c]

hubRest == <<buf, sig, sysVars, queueVars, apiVars, backoffVars, extVars>>

\* ServeWS, lines 162-166: a client dials, Upgrade succeeds, register
ServeWSRegister(c) ==
  /\ conn[c] = "none"
  /\ conn' = [conn EXCEPT ![c] = "open"]
  /\ sws' = [sws EXCEPT ![c] = TRUE]
  /\ clients' = clients \cup {c}
  /\ UNCHANGED <<bpre, broken, bpc, bev, bctx, bsnap, bset, battempt, received, dropped, nextEvent,
                 hubRest>>

\* the peer of a connection goes away
PeerLeaves(c) ==
  /\ conn[c] = "open"
  /\ ~broken[c]
  /\ broken' = [broken EXCEPT ![c] = TRUE]
  /\ UNCHANGED <<bpre, clients, conn, sws, bpc, bev, bctx, bsnap, bset, battempt, received,
                 dropped, nextEvent, hubRest>>

\* ServeWS, lines 167-174: ReadMessage fails, the loop ends, the deferred
\* unregister runs
ServeWSExit(c) ==
  /\ sws[c]
  /\ broken[c] \/ conn[c] = "closed"
  /\ sws' = [sws EXCEPT ![c] = FALSE]
  /\ clients' = Unregister(clients, c)
  /\ conn' = [conn EXCEPT ![c] = "closed"]
  /\ UNCHANGED <<bpre, broken, bpc, bev, bctx, bsnap, bset, battempt, received, dropped, nextEvent,
                 hubRest>>

\* Broadcast is called, lines 179-183: json.Marshal; when it fails Broadcast
\* returns.  cancelled: the context is already cancelled at the call
BroadcastCall(b, marshals, cancelled) ==
  /\ bpc[b] = "idle"
  /\ nextEvent <= MaxEvents
  /\ nextEvent' = nextEvent + 1
  /\ bev' = [bev EXCEPT ![b] = nextEvent]
  /\ bctx' = [bctx EXCEPT ![b] = cancelled]
  /\ bpre' = [bpre EXCEPT ![b] = cancelled]
  /\ bset' = [bset EXCEPT ![b] = {}]
  /\ battempt' = [battempt EXCEPT ![b] = <<>>]
  /\ bpc' = [bpc EXCEPT ![b] = IF marshals THEN "snap" ELSE "idle"]
  /\ UNCHANGED <<clients, conn, broken, sws, bsnap, received, dropped, hubRest>>

\* lines 184-189: the snapshot of h.clients under the read lock
BroadcastSnapshot(b) ==
  /\ bpc[b] = "snap"
  /\ \E order \in Orders(clients) : bsnap' = [bsnap EXCEPT ![b] = order]
  /\ bset' = [bset EXCEPT ![b] = clients]
  /\ bpc' = [bpc EXCEPT ![b] = "loop"]
  /\ UNCHANGED <<bpre, clients, conn, broken, sws, bev, bctx, battempt, received, dropped,
                 nextEvent, hubRest>>

\* lines 191-195: the loop ends, or the select finds ctx.Done() ready and
\* Broadcast returns, or the default case is taken
BroadcastSelect(b) ==
  /\ bpc[b] = "loop"
  /\ IF bsnap[b] = <<>> \/ CtxDone(bctx[b])
       THEN /\ bpc' = [bpc EXCEPT ![b] = "idle"]
            /\ bsnap' = [bsnap EXCEPT ![b] = <<>>]
       ELSE /\ bpc' = [bpc EXCEPT ![b] = "write"]
            /\ UNCHANGED bsnap
  /\ UNCHANGED <<bpre, clients, conn, broken, sws, bev, bctx, bset, battempt, received, dropped,
                 nextEvent, hubRest>>

\* lines 196-198: c.WriteMessage, and unregister (with c.Close) when it fails
BroadcastWrite(b) ==
  /\ bpc[b] = "write"
  /\ LET c == Head(bsnap[b])
     IN /\ battempt' = [battempt EXCEPT ![b] = Append(@, c)]
        /\ IF WriteSucceeds(c)
             THEN /\ received' = [received EXCEPT ![c] = Append(@, bev[b])]
                  /\ UNCHANGED <<clients, conn, dropped>>
             ELSE /\ clients' = Unregister(clients, c)
                  /\ conn' = [conn EXCEPT ![c] = "closed"]
                  /\ dropped' = dropped \cup {c}
                  /\ UNCHANGED received
  /\ bsnap' = [bsnap EXCEPT ![b] = Tail(@)]
  /\ bpc' = [bpc EXCEPT ![b] = "loop"]
  /\ UNCHANGED <<bpre, broken, sws, bev, bctx, bset, nextEvent, hubRest>>

\* the caller's context is cancelled while Broadcast runs
BroadcastCtxCancel(b) ==
  /\ bpc[b] # "idle"
  /\ ~bctx[b]
  /\ bctx' = [bctx EXCEPT ![b] = TRUE]
  /\ UNCHANGED <<bpre, clients, conn, broken, sws, bpc, bev, bsnap, bset, battempt, received,
                 dropped, nextEvent, hubRest>>

\* a Broadcast call made while no other Broadcast call is running
BroadcastCallAlone(b, marshals, cancelled) ==
  /\ \A other \in Broadcasters : bpc[other] = "idle"
  /\ BroadcastCall(b, marshals, cancelled)

\* clients come and go while Broadcast is called by one goroutine at a time
HubSeqNext ==
  \/ \E c \in Conns : ServeWSRegister(c) \/ PeerLeaves(c) \/ ServeWSExit(c)
  \/ \E b \in Broadcasters, marshals, cancelled \in BOOLEAN :
       BroadcastCallAlone(b, marshals, cancelled)
  \/ \E b \in Broadcasters :
       \/ BroadcastSnapshot(b)
       \/ BroadcastSelect(b)
       \/ BroadcastWrite(b)
       \/ BroadcastCtxCancel(b)

SpecHubSeq == Init /\ [][HubSeqNext]_vars

\* clients come and go while Broadcast is called from several goroutines at
\* once (handler.go line 87 calls it from the goroutine of each HTTP request)
HubNext ==
  \/ \E c \in Conns : ServeWSRegister(c) \/ PeerLeaves(c) \/ ServeWSExit(c)
  \/ \E b \in Broadcasters, marshals, cancelled \in BOOLEAN :
       BroadcastCall(b, marshals, cancelled)
  \/ \E b \in Broadcasters :
       \/ BroadcastSnapshot(b)
       \/ BroadcastSelect(b)
       \/ BroadcastWrite(b)
       \/ BroadcastCtxCancel(b)

SpecHub == Init /\ [][HubNext]_vars

(***************************************************************************)
(* Lock discipline.  The code of every operation that takes a lock, as a   *)
(* control-flow graph with edges <<from, kind, lock, to>>: kind is "Lock", *)
(* "Unlock", "RLock", "RUnlock", or "run" for code that calls no lock      *)
(* (a channel operation, a socket write, the handler, a return).  A label  *)
(* prefix p tells the inlined copies of a callee apart.                    *)
(***************************************************************************)
QueueMu == "MemQueue.mu"
HubMu == "Hub.mu"
TasksMu == "memTaskRepo.mu"
WorkersMu == "memWorkerRepo.mu"
WorkflowRepoMu == "WorkflowRepo.mu"
TaskRepoMu == "TaskRepo.mu"
WorkflowRunRepoMu == "WorkflowRunRepo.mu"
TaskRunRepoMu == "TaskRunRepo.mu"
WorkerRepoMu == "WorkerRepo.mu"
MockMus == {WorkflowRepoMu, TaskRepoMu, WorkflowRunRepoMu, TaskRunRepoMu, WorkerRepoMu}

\* mu.Lock() ... mu.Unlock(), also as defer mu.Unlock()
Excl(from, l, to) ==
  {<<from, "Lock", l, from \o "+" \o l>>, <<from \o "+" \o l, "Unlock", l, to>>}

\* mu.RLock() ... mu.RUnlock()
Shrd(from, l, to) ==
  {<<from, "RLock", l, from \o "+" \o l>>, <<from \o "+" \o l, "RUnlock", l, to>>}

\* code between two lock calls
Step(from, to) == {<<from, "run", "", to>>}

\* MemQueue.Enqueue, queue.go lines 27-36
EnqueueFlow(p, to) ==
  Excl(p \o "Enqueue", QueueMu, p \o "Enqueue.select") \cup Step(p \o "Enqueue.select", to)

\* MemQueue.Dequeue, queue.go lines 40-64: pop, re-signal and return, or
\* wait for q.sig and loop, or return on ctx.Done()
DequeueFlow(p, to, cancelledTo) ==
  Excl(p \o "Dequeue", QueueMu, p \o "Dequeue.unlocked")
    \cup Step(p \o "Dequeue.unlocked", to)
    \cup Step(p \o "Dequeue.unlocked", p \o "Dequeue")
    \cup Step(p \o "Dequeue.unlocked", cancelledTo)

\* MemQueue.Len, queue.go lines 67-72
LenFlow == Excl("Len", QueueMu, "idle")

\* Scheduler.Submit, queue.go lines 103-117: Validate, tasks.Save, queue.Enqueue
SubmitFlow ==
  Step("Submit", "idle") \cup Step("Submit", "Submit.Save")
    \cup Excl("Submit.Save", TasksMu, "Submit.Enqueue")
    \cup EnqueueFlow("Submit.", "idle")

\* Scheduler.Cancel, queue.go lines 121-132: tasks.FindByID, then tasks.Save
CancelFlow ==
  Shrd("Cancel", TasksMu, "Cancel.found")
    \cup Step("Cancel.found", "idle") \cup Step("Cancel.found", "Cancel.Save")
    \cup Excl("Cancel.Save", TasksMu, "idle")

\* Scheduler.Status, queue.go lines 135-141
StatusFlow == Shrd("Status", TasksMu, "idle")

\* Worker.Run and Worker.execute, worker.go lines 97-167: workers.Save, then
\* Dequeue and execute in a loop; execute saves, runs the handler, saves,
\* and on a retry waits and re-enqueues
RunFlow ==
  Excl("Run", WorkersMu, "Run.Dequeue")
    \cup DequeueFlow("Run.", "Run.execute", "idle")
    \cup Excl("Run.execute", TasksMu, "Run.handler")
    \cup Step("Run.handler", "Run.Save")
    \cup Excl("Run.Save", TasksMu, "Run.saved")
    \cup Step("Run.saved", "Run.Dequeue")
    \cup Step("Run.saved", "Run.Enqueue")
    \cup EnqueueFlow("Run.", "Run.Dequeue")

\* Worker.heartbeatLoop, worker.go lines 171-187
HeartbeatFlow ==
  Step("heartbeatLoop", "idle") \cup Step("heartbeatLoop", "heartbeatLoop.FindByID")
    \cup Shrd("heartbeatLoop.FindByID", WorkersMu, "heartbeatLoop.found")
    \cup Step("heartbeatLoop.found", "heartbeatLoop")
    \cup Step("heartbeatLoop.found", "heartbeatLoop.Save")
    \cup Excl("heartbeatLoop.Save", WorkersMu, "heartbeatLoop")

\* Hub.ServeWS with register and unregister, part_003 lines 161-175, 203-214
ServeWSFlow ==
  Step("ServeWS", "idle") \cup Step("ServeWS", "ServeWS.register")
    \cup Excl("ServeWS.register", HubMu, "ServeWS.ReadMessage")
    \cup Step("ServeWS.ReadMessage", "ServeWS.unregister")
    \cup Excl("ServeWS.unregister", HubMu, "ServeWS.Close")
    \cup Step("ServeWS.Close", "idle")

\* mutant: Broadcast writes, and unregisters, while it holds the read lock
BroadcastFlow_WriteUnderRLock(p, to) ==
  Step(p \o "Broadcast", to) \cup Step(p \o "Broadcast", p \o "Broadcast.RLock")
    \cup {<<p \o "Broadcast.RLock", "RLock", HubMu, p \o "Broadcast.loop">>,
          <<p \o "Broadcast.loop", "RUnlock", HubMu, to>>}
    \cup Step(p \o "Broadcast.loop", p \o "Broadcast.written")
    \cup Step(p \o "Broadcast.written", p \o "Broadcast.loop")
    \cup Step(p \o "Broadcast.written", p \o "Broadcast.unregister")
    \cup Excl(p \o "Broadcast.unregister", HubMu, p \o "Broadcast.loop")

\* Hub.Broadcast with unregister, part_003 lines 179-201, 209-214: Marshal,
\* the snapshot under the read lock, then per client the select, the write
\* and, when the write fails, unregister
BroadcastFlow(p, to) ==
  Step(p \o "Broadcast", to) \cup Step(p \o "Broadcast", p \o "Broadcast.RLock")
    \cup Shrd(p \o "Broadcast.RLock", HubMu, p \o "Broadcast.loop")
    \cup Step(p \o "Broadcast.loop", to)
    \cup Step(p \o "Broadcast.loop", p \o "Broadcast.written")
    \cup Step(p \o "Broadcast.written", p \o "Broadcast.loop")
    \cup Step(p \o "Broadcast.written", p \o "Broadcast.unregister")
    \cup Excl(p \o "Broadcast.unregister", HubMu, p \o "Broadcast.Close")
    \cup Step(p \o "Broadcast.Close", p \o "Broadcast.loop")

\* memTaskRepo and memWorkerRepo, cmd/worker/main.go lines 80-169: Save and
\* Delete take the write lock, the Find methods the read lock
MemRepoFlow ==
  UNION {Excl("write:" \o l, l, "idle") \cup Shrd("read:" \o l, l, "idle") :
           l \in {TasksMu, WorkersMu}}

\* the mock repositories, mock.go lines 29-387: Create, Update, Delete,
\* UpdateStatus and UpdateHeartbeat take the write lock of their store,
\* GetByID and the list methods its read lock
MockRepoFlow ==
  UNION {Excl("write:" \o l, l, "idle") \cup Shrd("read:" \o l, l, "idle") : l \in MockMus}

\* Service.CreateWorkflow and Service.ListWorkflows, part_004 lines 48-71
WorkflowsFlow ==
  Excl("CreateWorkflow", WorkflowRepoMu, "idle")
    \cup Shrd("ListWorkflows", WorkflowRepoMu, "idle")

\* Service.TriggerWorkflow, part_004 lines 74-89: workflows.GetByID, then
\* workflowRuns.Create
TriggerWorkflowFlow(p, to, errTo) ==
  Shrd(p \o "TriggerWorkflow", WorkflowRepoMu, p \o "TriggerWorkflow.checked")
    \cup Step(p \o "TriggerWorkflow.checked", errTo)
    \cup Step(p \o "TriggerWorkflow.checked", p \o "TriggerWorkflow.Create")
    \cup Excl(p \o "TriggerWorkflow.Create", WorkflowRunRepoMu, to)

\* Handler.triggerWorkflow, handler.go lines 71-92: TriggerWorkflow, then
\* hub.Broadcast
TriggerHandlerFlow ==
  Step("triggerWorkflow", "idle") \cup Step("triggerWorkflow", "handler.TriggerWorkflow")
    \cup TriggerWorkflowFlow("handler.", "handler.Broadcast", "idle")
    \cup BroadcastFlow("handler.", "idle")

\* Service.ListWorkflowRuns, part_004 lines 92-110
ListWorkflowRunsFlow ==
  Step("ListWorkflowRuns", "ListWorkflowRuns.ListByStatus")
    \cup Shrd("ListWorkflowRuns.ListByStatus", WorkflowRunRepoMu, "idle")
    \cup Step("ListWorkflowRuns", "ListWorkflowRuns.List")
    \cup Shrd("ListWorkflowRuns.List", WorkflowRepoMu, "ListWorkflowRuns.loop")
    \cup Step("ListWorkflowRuns.loop", "idle")
    \cup Step("ListWorkflowRuns.loop", "ListWorkflowRuns.ListByWorkflowID")
    \cup Shrd("ListWorkflowRuns.ListByWorkflowID", WorkflowRunRepoMu, "ListWorkflowRuns.loop")

\* Service.ListTaskRuns, part_004 lines 113-137
ListTaskRunsFlow ==
  Step("ListTaskRuns", "ListTaskRuns.ListByStatus")
    \cup Shrd("ListTaskRuns.ListByStatus", TaskRunRepoMu, "idle")
    \cup Step("ListTaskRuns", "ListTaskRuns.List")
    \cup Shrd("ListTaskRuns.List", WorkflowRepoMu, "ListTaskRuns.loop")
    \cup Step("ListTaskRuns.loop", "idle")
    \cup Step("ListTaskRuns.loop", "ListTaskRuns.ListByWorkflowID")
    \cup Shrd("ListTaskRuns.ListByWorkflowID", WorkflowRunRepoMu, "ListTaskRuns.inner")
    \cup Step("ListTaskRuns.inner", "ListTaskRuns.loop")
    \cup Step("ListTaskRuns.inner", "ListTaskRuns.ListByWorkflowRunID")
    \cup Shrd("ListTaskRuns.ListByWorkflowRunID", TaskRunRepoMu, "ListTaskRuns.inner")

\* Service.ListWorkers, part_004 lines 140-142
ListWorkersFlow == Shrd("ListWorkers", WorkerRepoMu, "idle")

Flow ==
  EnqueueFlow("", "idle") \cup DequeueFlow("", "idle", "idle") \cup LenFlow
    \cup SubmitFlow \cup CancelFlow \cup StatusFlow \cup RunFlow \cup HeartbeatFlow
    \cup ServeWSFlow \cup BroadcastFlow("", "idle") \cup MemRepoFlow \cup MockRepoFlow
    \cup WorkflowsFlow \cup TriggerWorkflowFlow("", "idle", "idle") \cup TriggerHandlerFlow
    \cup ListWorkflowRunsFlow \cup ListTaskRunsFlow \cup ListWorkersFlow

\* the operations a goroutine can be started in
Entries ==
  {"Enqueue", "Dequeue", "Len", "Submit", "Cancel", "Status", "Run", "heartbeatLoop",
   "ServeWS", "Broadcast", "CreateWorkflow", "ListWorkflows", "TriggerWorkflow",
   "triggerWorkflow", "ListWorkflowRuns", "ListTaskRuns", "ListWorkers"}
    \cup {"write:" \o l : l \in MockMus \cup {TasksMu, WorkersMu}}
    \cup {"read:" \o l : l \in MockMus \cup {TasksMu, WorkersMu}}

\* the edges out of the point g is at
Edges(g) == {e \in Flow : e[1] = gpc[g]}

Holders(l) == {h \in Goroutines : <<l, "w">> \in held[h] \/ <<l, "r">> \in held[h]}

\* goroutines inside a Lock call on l: sync.RWMutex lets no new reader in
\* while a writer waits
PendingWriters(l) == {h \in Goroutines : \E e \in Edges(h) : e[2] = "Lock" /\ e[3] = l}

\* the goroutines that keep a Lock or RLock call on l from returning
Blockers(kind, l) ==
  IF kind = "Lock"
    THEN Holders(l)
    ELSE {h \in Goroutines : <<l, "w">> \in held[h]} \cup PendingWriters(l)

\* a goroutine starts an operation
GoCall(g, entry) ==
  /\ gpc[g] = "idle"
  /\ gpc' = [gpc EXCEPT ![g] = entry]
  /\ UNCHANGED <<held, otherVars, mockVars, svcVars, runVars>>

\* mu.Lock() or mu.RLock() returns
GoAcquire(g) ==
  /\ \E e \in Edges(g) :
       /\ e[2] \in {"Lock", "RLock"}
       /\ Blockers(e[2], e[3]) = {}
       /\ held' = [held EXCEPT ![g] = @ \cup {<<e[3], IF e[2] = "Lock" THEN "w" ELSE "r">>}]
       /\ gpc' = [gpc EXCEPT ![g] = e[4]]
  /\ UNCHANGED <<otherVars, mockVars, svcVars, runVars>>

\* mu.Unlock() or mu.RUnlock()
GoRelease(g) ==
  /\ \E e \in Edges(g) :
       /\ e[2] \in {"Unlock", "RUnlock"}
       /\ held' = [held EXCEPT ![g] = @ \ {<<e[3], IF e[2] = "Unlock" THEN "w" ELSE "r">>}]
       /\ gpc' = [gpc EXCEPT ![g] = e[4]]
  /\ UNCHANGED <<otherVars, mockVars, svcVars, runVars>>

\* code that calls no lock
GoRun(g) ==
  /\ \E e \in Edges(g) :
       /\ e[2] = "run"
       /\ gpc' = [gpc EXCEPT ![g] = e[4]]
  /\ UNCHANGED <<held, otherVars, mockVars, svcVars, runVars>>

LocksNext ==
  \E g \in Goroutines :
    \/ \E entry \in Entries : GoCall(g, entry)
    \/ GoAcquire(g)
    \/ GoRelease(g)
    \/ GoRun(g)

SpecLocks == Init /\ [][LocksNext]_vars

(***************************************************************************)
(* The mock repositories (src/internal/repository/mock/mock.go), called by *)
(* one goroutine.  Every method copies the struct (cp := *wr), which       *)
(* copies the FinishedAt pointer and not the time.Time it points to.       *)
(***************************************************************************)
mockRest == <<otherVars, lockVars, svcVars, runVars>>

\* mutant: the presence check of Update, Delete, UpdateStatus finds any id
Has_Always(st, id) == TRUE

\* _, ok := r.store[id]
Has(st, id) == st[id].ID # ""

\* cp := *e; r.store[e.ID] = &cp
Put(st, e) == [st EXCEPT ![e.ID] = e]

\* delete(r.store, id)
Remove(st, id, absent) == [st EXCEPT ![id] = absent]

\* what a pointer shows: nil, or the time.Time in its cell
Deref(c, a) == IF a = 0 THEN "nil" ELSE c[a]

\* what a store with FinishedAt pointers holds, pointers followed
View(st, c) == [id \in DOMAIN st |-> [st[id] EXCEPT !.FinishedAt = Deref(c, @)]]

\* `var out []*T` and one append per matching record, in map order
Collect(st, ids) ==
  IF ids = {}
    THEN {NilSlice}
    ELSE {[isNil |-> FALSE, items |-> [i \in 1..Cardinality(ids) |-> st[order[i]]]] :
            order \in Orders(ids)}

Returned(op, id, err) == [NoRet EXCEPT !.op = op, !.id = id, !.err = err]

\* the workflow runs a caller of the repository creates
RunInputs ==
  {[ID |-> id, WorkflowID |-> "wf1", Status |-> StatusPending, FinishedAt |-> p] :
     id \in RunIDs, p \in {0, ptr}}

TaskRunInputs ==
  {[ID |-> id, WorkflowRunID |-> "r1", Status |-> StatusPending, FinishedAt |-> p] :
     id \in TaskRunIDs, p \in {0, ptr}}

\* now := time.Now(); the caller keeps &now
CallerNewTime(t) ==
  /\ Len(cells) < MaxCells
  /\ cells' = Append(cells, t)
  /\ ptr' = Len(cells) + 1
  /\ ret' = Returned("NewTime", "", Nil)
  /\ UNCHANGED <<workflows, runs, taskRuns, mworkers, mine, mockRest>>

\* WorkflowRunRepo.Create, lines 172-178
RunCreate(e) ==
  /\ runs' = Put(runs, e)
  /\ mine' = e
  /\ ret' = Returned("Create", e.ID, Nil)
  /\ UNCHANGED <<workflows, taskRuns, mworkers, cells, ptr, mockRest>>

\* WorkflowRunRepo.GetByID, lines 180-189
RunGetByID(id) ==
  /\ IF Has(runs, id)
       THEN mine' = runs[id] /\ ret' = Returned("GetByID", id, Nil)
       ELSE mine' = AbsentRun /\ ret' = Returned("GetByID", id, ErrNotFound)
  /\ UNCHANGED <<workflows, runs, taskRuns, mworkers, cells, ptr, mockRest>>

\* WorkflowRunRepo.UpdateStatus, lines 191-201
RunUpdateStatus(id, status, finishedAt) ==
  /\ IF Has(runs, id)
       THEN /\ runs' = [runs EXCEPT ![id].Status = status, ![id].FinishedAt = finishedAt]
            /\ ret' = Returned("UpdateStatus", id, Nil)
       ELSE /\ UNCHANGED runs
            /\ ret' = Returned("UpdateStatus", id, ErrNotFound)
  /\ UNCHANGED <<workflows, taskRuns, mworkers, cells, mine, ptr, mockRest>>

\* WorkflowRunRepo.ListByStatus, lines 216-227; the caller keeps one of the
\* returned entities
RunListByStatus(status) ==
  /\ \E out \in Collect(runs, {id \in RunIDs : Has(runs, id) /\ runs[id].Status = status}) :
       /\ ret' = [Returned("ListByStatus", "", Nil) EXCEPT !.list = out]
       /\ \E i \in 1..Len(out.items) : mine' = out.items[i]
  /\ UNCHANGED <<workflows, runs, taskRuns, mworkers, cells, ptr, mockRest>>

\* TaskRunRepo.Create, lines 242-248
TaskRunCreate(e) ==
  /\ taskRuns' = Put(taskRuns, e)
  /\ mine' = e
  /\ ret' = Returned("Create", e.ID, Nil)
  /\ UNCHANGED <<workflows, runs, mworkers, cells, ptr, mockRest>>

\* TaskRunRepo.GetByID, lines 250-259
TaskRunGetByID(id) ==
  /\ IF Has(taskRuns, id)
       THEN mine' = taskRuns[id] /\ ret' = Returned("GetByID", id, Nil)
       ELSE mine' = AbsentTaskRun /\ ret' = Returned("GetByID", id, ErrNotFound)
  /\ UNCHANGED <<workflows, runs, taskRuns, mworkers, cells, ptr, mockRest>>

\* TaskRunRepo.UpdateStatus, lines 261-271
TaskRunUpdateStatus(id, status, finishedAt) ==
  /\ IF Has(taskRuns, id)
       THEN /\ taskRuns' = [taskRuns EXCEPT ![id].Status = status,
                                            ![id].FinishedAt = finishedAt]
            /\ ret' = Returned("UpdateStatus", id, Nil)
       ELSE /\ UNCHANGED taskRuns
            /\ ret' = Returned("UpdateStatus", id, ErrNotFound)
  /\ UNCHANGED <<workflows, runs, mworkers, cells, mine, ptr, mockRest>>

\* the caller assigns to a field of the entity it holds
CallerSetsField(status, finishedAt) ==
  /\ mine.ID # ""
  /\ mine' = [mine EXCEPT !.Status = status, !.FinishedAt = finishedAt]
  /\ ret' = Returned("SetField", mine.ID, Nil)
  /\ UNCHANGED <<workflows, runs, taskRuns, mworkers, cells, ptr, mockRest>>

\* the caller assigns through a pointer it holds: *e.FinishedAt = t
CallerSetsTime(a, t) ==
  /\ a \in {mine.FinishedAt, ptr} \ {0}
  /\ cells' = [cells EXCEPT ![a] = t]
  /\ ret' = Returned("SetTime", "", Nil)
  /\ UNCHANGED <<workflows, runs, taskRuns, mworkers, mine, ptr, mockRest>>

RunRepoNext ==
  \/ \E t \in Times : CallerNewTime(t)
  \/ \E e \in RunInputs : RunCreate(e)
  \/ \E id \in RunIDs : RunGetByID(id)
  \/ \E id \in RunIDs, p \in {0, ptr} : RunUpdateStatus(id, StatusSuccess, p)
  \/ RunListByStatus(StatusSuccess)
  \/ \E e \in TaskRunInputs : TaskRunCreate(e)
  \/ \E id \in TaskRunIDs : TaskRunGetByID(id)
  \/ \E id \in TaskRunIDs, p \in {0, ptr} : TaskRunUpdateStatus(id, StatusSuccess, p)
  \/ \E p \in {0, ptr} : CallerSetsField(StatusFailed, p)
  \/ \E a \in 1..MaxCells, t \in Times : CallerSetsTime(a, t)

SpecRunRepo == Init /\ [][RunRepoNext]_vars

\* the workflows and workers a caller of the repositories passes
WorkflowInputs ==
  {[ID |-> id, Name |-> n, IsActive |-> a] :
     id \in {"wf1", "wf2"}, n \in {"daily", "nightly"}, a \in BOOLEAN}

WorkerInputs ==
  {[ID |-> id, Status |-> s, LastHeartbeat |-> "10:00"] :
     id \in MockWorkerIDs, s \in {WorkerStatusActive, WorkerStatusInactive}}

\* WorkflowRepo.Create, lines 29-35
WorkflowCreate(e) ==
  /\ workflows' = Put(workflows, e)
  /\ mine' = e
  /\ ret' = Returned("Create", e.ID, Nil)
  /\ UNCHANGED <<runs, taskRuns, mworkers, cells, ptr, mockRest>>

\* WorkflowRepo.GetByID, lines 37-46
WorkflowGetByID(id) ==
  /\ IF Has(workflows, id)
       THEN mine' = workflows[id] /\ ret' = Returned("GetByID", id, Nil)
       ELSE mine' = AbsentWorkflow /\ ret' = Returned("GetByID", id, ErrNotFound)
  /\ UNCHANGED <<workflows, runs, taskRuns, mworkers, cells, ptr, mockRest>>

\* WorkflowRepo.Update, lines 48-57
WorkflowUpdate(e) ==
  /\ IF Has(workflows, e.ID)
       THEN workflows' = Put(workflows, e) /\ ret' = Returned("Update", e.ID, Nil)
       ELSE UNCHANGED workflows /\ ret' = Returned("Update", e.ID, ErrNotFound)
  /\ mine' = e
  /\ UNCHANGED <<runs, taskRuns, mworkers, cells, ptr, mockRest>>

\* WorkflowRepo.Delete, lines 59-67
WorkflowDelete(id) ==
  /\ IF Has(workflows, id)
       THEN /\ workflows' = Remove(workflows, id, AbsentWorkflow)
            /\ ret' = Returned("Delete", id, Nil)
       ELSE UNCHANGED workflows /\ ret' = Returned("Delete", id, ErrNotFound)
  /\ UNCHANGED <<runs, taskRuns, mworkers, cells, mine, ptr, mockRest>>

\* WorkerRepo.Create, lines 325-331
MockWorkerCreate(e) ==
  /\ mworkers' = Put(mworkers, e)
  /\ mine' = e
  /\ ret' = Returned("Create", e.ID, Nil)
  /\ UNCHANGED <<workflows, runs, taskRuns, cells, ptr, mockRest>>

\* WorkerRepo.GetByID, lines 333-342
MockWorkerGetByID(id) ==
  /\ IF Has(mworkers, id)
       THEN mine' = mworkers[id] /\ ret' = Returned("GetByID", id, Nil)
       ELSE mine' = AbsentWorker /\ ret' = Returned("GetByID", id, ErrNotFound)
  /\ UNCHANGED <<workflows, runs, taskRuns, mworkers, cells, ptr, mockRest>>

\* WorkerRepo.Update, lines 344-353
MockWorkerUpdate(e) ==
  /\ IF Has(mworkers, e.ID)
       THEN mworkers' = Put(mworkers, e) /\ ret' = Returned("Update", e.ID, Nil)
       ELSE UNCHANGED mworkers /\ ret' = Returned("Update", e.ID, ErrNotFound)
  /\ mine' = e
  /\ UNCHANGED <<workflows, runs, taskRuns, cells, ptr, mockRest>>

\* WorkerRepo.Delete, lines 355-363
MockWorkerDelete(id) ==
  /\ IF Has(mworkers, id)
       THEN /\ mworkers' = Remove(mworkers, id, AbsentWorker)
            /\ ret' = Returned("Delete", id, Nil)
       ELSE UNCHANGED mworkers /\ ret' = Returned("Delete", id, ErrNotFound)
  /\ UNCHANGED <<workflows, runs, taskRuns, cells, mine, ptr, mockRest>>

\* WorkerRepo.UpdateHeartbeat, lines 378-387
MockWorkerUpdateHeartbeat(id, at) ==
  /\ IF Has(mworkers, id)
       THEN /\ mworkers' = [mworkers EXCEPT ![id].LastHeartbeat = at]
            /\ ret' = Returned("UpdateHeartbeat", id, Nil)
       ELSE UNCHANGED mworkers /\ ret' = Returned("UpdateHeartbeat", id, ErrNotFound)
  /\ UNCHANGED <<workflows, runs, taskRuns, cells, mine, ptr, mockRest>>

\* one caller of WorkflowRepo, WorkerRepo, WorkflowRunRepo and TaskRunRepo
MockCrudNext ==
  \/ \E e \in WorkflowInputs : WorkflowCreate(e) \/ WorkflowUpdate(e)
  \/ \E id \in WorkflowIDs : WorkflowGetByID(id) \/ WorkflowDelete(id)
  \/ \E e \in WorkerInputs : MockWorkerCreate(e) \/ MockWorkerUpdate(e)
  \/ \E id \in MockWorkerIDs : MockWorkerGetByID(id) \/ MockWorkerDelete(id)
  \/ \E id \in MockWorkerIDs, at \in Times : MockWorkerUpdateHeartbeat(id, at)
  \/ \E e \in RunInputs : RunCreate(e)
  \/ \E id \in RunIDs : RunGetByID(id) \/ RunUpdateStatus(id, StatusSuccess, 0)
  \/ \E e \in TaskRunInputs : TaskRunCreate(e)
  \/ \E id \in TaskRunIDs : TaskRunGetByID(id) \/ TaskRunUpdateStatus(id, StatusSuccess, 0)

SpecMockCrud == Init /\ [][MockCrudNext]_vars

(***************************************************************************)
(* service.Service (src/unnamed/part_004, lines 1-158) over the mock       *)
(* repositories, and Handler.triggerWorkflow (handler.go, lines 71-92),    *)
(* called by one goroutine.  uuid.New() returns an id not in use.          *)
(***************************************************************************)
EventWorkflowStatus == "workflow_status"

\* out := make([]*T, 0, len(r.store)) and one append per record, in map order
CollectAll(st, ids) ==
  {[isNil |-> FALSE, items |-> [i \in 1..Cardinality(ids) |-> st[order[i]]]] :
     order \in Orders(ids)}

\* append(s, t...)
AppendAll(s, t) ==
  IF t.items = <<>> THEN s ELSE [isNil |-> FALSE, items |-> s.items \o t.items]

\* mutant: the limit is not applied
Paginate_NoLimit(s, offset, limit) ==
  LET off == IF offset < 0 THEN 0 ELSE offset
  IN IF off >= Len(s.items)
       THEN [isNil |-> FALSE, items |-> <<>>]
       ELSE [isNil |-> s.isNil, items |-> SubSeq(s.items, off + 1, Len(s.items))]

\* paginate, part_004 lines 146-158
Paginate(s, offset, limit) ==
  LET off == IF offset < 0 THEN 0 ELSE offset
  IN IF off >= Len(s.items)
       THEN [isNil |-> FALSE, items |-> <<>>]
       ELSE LET rest == SubSeq(s.items, off + 1, Len(s.items))
            IN IF limit > 0 /\ limit < Len(rest)
                 THEN [isNil |-> s.isNil, items |-> SubSeq(rest, 1, limit)]
                 ELSE [isNil |-> s.isNil, items |-> rest]

\* mutant: the run is created as running
NewRun_Running(id, workflowID) ==
  [ID |-> id, WorkflowID |-> workflowID, Status |-> StatusRunning, FinishedAt |-> 0]

\* TriggerWorkflow, part_004 lines 79-84: the run it builds
NewRun(id, workflowID) ==
  [ID |-> id, WorkflowID |-> workflowID, Status |-> StatusPending, FinishedAt |-> 0]

Stored(st) == {id \in DOMAIN st : Has(st, id)}

RunsOf(workflowID) == {id \in Stored(runs) : runs[id].WorkflowID = workflowID}

TaskRunsOf(runID) == {id \in Stored(taskRuns) : taskRuns[id].WorkflowRunID = runID}

\* ListWorkflowRuns, part_004 lines 101-108: the loop over wfs
RECURSIVE GatherRuns(_)
GatherRuns(wfs) ==
  IF wfs = <<>>
    THEN {NilSlice}
    ELSE {AppendAll(s, r) : s \in GatherRuns(SubSeq(wfs, 1, Len(wfs) - 1)),
                            r \in Collect(runs, RunsOf(wfs[Len(wfs)].ID))}

\* ListTaskRuns, part_004 lines 128-134: the loop over wfRuns
RECURSIVE GatherTaskRunsOf(_, _)
GatherTaskRunsOf(acc, wfRuns) ==
  IF wfRuns = <<>>
    THEN {acc}
    ELSE UNION {GatherTaskRunsOf(AppendAll(acc, trs), Tail(wfRuns)) :
                  trs \in Collect(taskRuns, TaskRunsOf(Head(wfRuns).ID))}

\* ListTaskRuns, part_004 lines 122-135: the loop over wfs
RECURSIVE GatherTaskRuns(_, _)
GatherTaskRuns(acc, wfs) ==
  IF wfs = <<>>
    THEN {acc}
    ELSE UNION {UNION {GatherTaskRuns(next, Tail(wfs)) :
                         next \in GatherTaskRunsOf(acc, wfRuns.items)} :
                  wfRuns \in Collect(runs, RunsOf(Head(wfs).ID))}

svcRest == <<otherVars, lockVars, runVars>>

\* Service.CreateWorkflow, part_004 lines 48-61
SvcCreateWorkflow(id, name, active) ==
  /\ hpc = "idle"
  /\ ~Has(workflows, id)
  /\ LET wf == [ID |-> id, Name |-> name, IsActive |-> active]
     IN /\ workflows' = Put(workflows, wf)
        /\ mine' = wf
  /\ ret' = Returned("CreateWorkflow", id, Nil)
  /\ UNCHANGED <<runs, taskRuns, mworkers, cells, ptr, svcVars, svcRest>>

\* Service.ListWorkflows, part_004 lines 65-71
SvcListWorkflows(offset, limit) ==
  /\ hpc = "idle"
  /\ \E all \in CollectAll(workflows, Stored(workflows)) :
       ret' = [Returned("ListWorkflows", "", Nil) EXCEPT
                 !.all = all, !.offset = offset, !.limit = limit,
                 !.list = Paginate(all, offset, limit)]
  /\ UNCHANGED <<workflows, runs, taskRuns, mworkers, cells, mine, ptr, svcVars, svcRest>>

\* Service.TriggerWorkflow, part_004 lines 74-89
TriggerWorkflow(workflowID, newID) ==
  IF Has(workflows, workflowID)
    THEN /\ ~Has(runs, newID)
         /\ runs' = Put(runs, NewRun(newID, workflowID))
         /\ mine' = NewRun(newID, workflowID)
         /\ ret' = Returned("TriggerWorkflow", workflowID, Nil)
    ELSE /\ UNCHANGED runs
         /\ mine' = AbsentRun
         /\ ret' = Returned("TriggerWorkflow", workflowID, ErrNotFound)

SvcTriggerWorkflow(workflowID, newID) ==
  /\ hpc = "idle"
  /\ TriggerWorkflow(workflowID, newID)
  /\ UNCHANGED <<workflows, taskRuns, mworkers, cells, ptr, svcVars, svcRest>>

\* Service.ListWorkflowRuns, part_004 lines 92-110
SvcListWorkflowRuns(status) ==
  /\ hpc = "idle"
  /\ \E out \in IF status # ""
                  THEN Collect(runs, {id \in Stored(runs) : runs[id].Status = status})
                  ELSE UNION {GatherRuns(wfs.items) :
                                wfs \in CollectAll(workflows, Stored(workflows))} :
       ret' = [Returned("ListWorkflowRuns", status, Nil) EXCEPT !.list = out]
  /\ UNCHANGED <<workflows, runs, taskRuns, mworkers, cells, mine, ptr, svcVars, svcRest>>

\* Service.ListTaskRuns, part_004 lines 113-137
SvcListTaskRuns(status) ==
  /\ hpc = "idle"
  /\ \E out \in IF status # ""
                  THEN Collect(taskRuns,
                               {id \in Stored(taskRuns) : taskRuns[id].Status = status})
                  ELSE UNION {GatherTaskRuns(NilSlice, wfs.items) :
                                wfs \in CollectAll(workflows, Stored(workflows))} :
       ret' = [Returned("ListTaskRuns", status, Nil) EXCEPT !.list = out]
  /\ UNCHANGED <<workflows, runs, taskRuns, mworkers, cells, mine, ptr, svcVars, svcRest>>

\* Service.ListWorkers, part_004 lines 140-142, WorkerRepo.ListActive
SvcListWorkers ==
  /\ hpc = "idle"
  /\ \E out \in Collect(mworkers, {id \in Stored(mworkers) :
                                     mworkers[id].Status = WorkerStatusActive}) :
       ret' = [Returned("ListWorkers", "", Nil) EXCEPT !.list = out]
  /\ UNCHANGED <<workflows, runs, taskRuns, mworkers, cells, mine, ptr, svcVars, svcRest>>

\* records put into the repositories behind the service, as the tests do
SeedTaskRun(e) ==
  /\ hpc = "idle"
  /\ TaskRunCreate(e)

SeedWorker(e) ==
  /\ hpc = "idle"
  /\ MockWorkerCreate(e)

\* mutant: the handler goes on to Broadcast whatever TriggerWorkflow returned
AfterTrigger_Always(err) == "broadcast"

\* triggerWorkflow, handler.go lines 78-85: respond and return on an error
AfterTrigger(err) == IF err = Nil THEN "broadcast" ELSE "idle"

\* triggerWorkflow, handler.go lines 87-90: the event handed to Broadcast
EventFor(run) == [Type |-> EventWorkflowStatus, Payload |-> run]

\* triggerWorkflow, handler.go lines 72-85: uuid.Parse, then TriggerWorkflow
HandlerTrigger(parses, workflowID, newID) ==
  /\ hpc = "idle"
  /\ IF parses
       THEN /\ TriggerWorkflow(workflowID, newID)
            /\ hpc' = AfterTrigger(ret'.err)
            /\ hrun' = mine'
       ELSE /\ ret' = Returned("triggerWorkflow", "", <<"invalid workflow id", "">>)
            /\ UNCHANGED <<runs, mine, hpc, hrun>>
  /\ UNCHANGED <<workflows, taskRuns, mworkers, cells, ptr, sent, svcRest>>

\* triggerWorkflow, handler.go lines 87-91: hub.Broadcast, then the response
HandlerBroadcast ==
  /\ hpc = "broadcast"
  /\ sent' = Append(sent, EventFor(hrun))
  /\ hpc' = "idle"
  /\ ret' = Returned("Broadcast", hrun.ID, Nil)
  /\ UNCHANGED <<workflows, runs, taskRuns, mworkers, cells, mine, ptr, hrun, svcRest>>

\* one caller of the service facade
ServiceNext ==
  \/ \E id \in WorkflowIDs \ {"wf3"}, active \in BOOLEAN : SvcCreateWorkflow(id, "daily", active)
  \/ \E workflowID \in WorkflowIDs, newID \in RunIDs : SvcTriggerWorkflow(workflowID, newID)
  \/ \E status \in {"", StatusPending, StatusSuccess} :
       SvcListWorkflowRuns(status) \/ SvcListTaskRuns(status)
  \/ SvcListWorkflows(0, 0)
  \/ SvcListWorkers
  \/ \E e \in TaskRunInputs : SeedTaskRun(e)
  \/ \E e \in WorkerInputs : SeedWorker(e)

SpecService == Init /\ [][ServiceNext]_vars

\* requests to POST /workflows/:id/trigger, one at a time
HandlerNext ==
  \/ \E id \in WorkflowIDs \ {"wf3"} : SvcCreateWorkflow(id, "daily", TRUE)
  \/ \E parses \in BOOLEAN, workflowID \in WorkflowIDs, newID \in RunIDs :
       HandlerTrigger(parses, workflowID, newID)
  \/ HandlerBroadcast

SpecHandler == Init /\ [][HandlerNext]_vars

\* workflows are created and listed page by page
PageNext ==
  \/ \E id \in WorkflowIDs : SvcCreateWorkflow(id, "daily", TRUE)
  \/ \E offset, limit \in -1..MaxPage : SvcListWorkflows(offset, limit)

SpecPage == Init /\ [][PageNext]_vars

(***************************************************************************)
(* Worker.Run's registration (src/worker/worker.go, lines 97-112) over a   *)
(* worker repository whose Save can fail.                                  *)
(***************************************************************************)
\* fmt.Errorf("worker register: %w", err), line 109
ErrRegister == <<"ErrRepo", "worker register">>

\* mutant: the record is saved with Concurrency 0
NewWorker_NoConcurrency(id) ==
  [ID |-> id, Status |-> WorkerStatusIdle, Concurrency |-> 0, ActiveTasks |-> 0]

\* Run lines 98-107: the record Run saves
NewWorker(id) ==
  [ID |-> id, Status |-> WorkerStatusIdle, Concurrency |-> 1, ActiveTasks |-> 0]

\* Run lines 98-112: workers.Save; on an error Run returns it wrapped, else
\* the heartbeat loop is started and the dequeue loop is entered
RunRegister(w, saveFails) ==
  /\ wpc[w] = "register"
  /\ IF saveFails
       THEN /\ runErr' = [runErr EXCEPT ![w] = ErrRegister]
            /\ wpc' = [wpc EXCEPT ![w] = "exited"]
            /\ UNCHANGED <<wstore, hb>>
       ELSE /\ wstore' = [wstore EXCEPT ![w] = NewWorker(w)]
            /\ hb' = [hb EXCEPT ![w] = TRUE]
            /\ wpc' = [wpc EXCEPT ![w] = "lock"]
            /\ UNCHANGED runErr
  /\ UNCHANGED <<buf, sig, store, spc, sobj, subCount, cpc, cloc, ncancel, cur, rem, ctxDone,
                 queueVars, apiVars, backoffVars, hubVars, lockVars, mockVars, svcVars,
                 lateVars>>

\* tasks are submitted while workers start, with a worker repository that
\* can fail, and run
RunNext ==
  \/ \E id \in TaskIDs, maxRetries \in 0..MaxRetriesBound : SubmitSave(id, maxRetries)
  \/ \E id \in TaskIDs : SubmitEnqueue(id) \/ SubmitSignal(id)
  \/ \E w \in WorkerIDs, saveFails \in BOOLEAN : RunRegister(w, saveFails)
  \/ \E w \in WorkerIDs :
       \/ WorkerDequeueLock(w)
       \/ WorkerDequeueReturn(w)
       \/ WorkerDequeueWake(w)
       \/ WorkerDequeueCancelled(w)
       \/ ExecuteStart(w)
       \/ HandlerSucceeds(w)
       \/ HandlerFailsRetry(w)
       \/ HandlerFailsFinal(w)
       \/ BackoffElapsed(w)
       \/ BackoffCancelled(w)
       \/ ReEnqueueAppend(w)
       \/ ReEnqueueSignal(w)
       \/ WorkerCancel(w)

SpecRun == Init /\ [][RunNext]_vars

(***************************************************************************)
(* Worker.heartbeatLoop (src/worker/worker.go, lines 169-187) against a    *)
(* clock.  Time is counted in clock units; the ticker fires every          *)
(* HeartbeatInterval units and a tick that is due is handled before the    *)
(* clock moves on.  The repository's FindByID and Save can fail.           *)
(***************************************************************************)
HeartbeatInterval == 2
MaxTime == 8

\* no record under the worker's ID
AbsentRec == [present |-> FALSE, Status |-> "", LastHeartAt |-> 0]

\* mutant: the tick leaves LastHeartAt as it was read
Stamp_Keep(rec, t) == rec

\* heartbeatLoop line 182: wrk.LastHeartAt = time.Now()
Stamp(rec, t) == [rec EXCEPT !.LastHeartAt = t]

\* mutant: a failed FindByID ends the loop
AfterTickError_Return == "done"

\* heartbeatLoop lines 179-181: continue, back to the select
AfterTickError == "select"

beatRest == <<otherVars, lockVars, mockVars, svcVars, wstore, hb, runErr, liveVars, retryVars,
              lenVars, hookVars>>

\* Run lines 98-112 and heartbeatLoop line 172: the record is saved with
\* LastHeartAt = now and the ticker is created; a failed Save ends Run
HbRunStart(saveFails) ==
  /\ hbpc = "off"
  /\ IF saveFails
       THEN /\ hbpc' = "failed"
            /\ UNCHANGED <<workerRec, hbNext>>
       ELSE /\ workerRec' = [present |-> TRUE, Status |-> WorkerStatusIdle, LastHeartAt |-> now]
            /\ hbNext' = now + HeartbeatInterval
            /\ hbpc' = "select"
  /\ UNCHANGED <<now, hbCtx, wrk, lastTickOk, hbErrs, hbAfterErr, busy, beatRest>>

\* the clock advances; a due tick and a read copy are handled first
TimePasses ==
  /\ now < MaxTime
  /\ ~(hbpc = "select" /\ now = hbNext)
  /\ hbpc # "save"
  /\ now' = now + 1
  /\ UNCHANGED <<hbpc, hbNext, hbCtx, workerRec, wrk, lastTickOk, hbErrs, hbAfterErr, busy,
                 beatRest>>

\* heartbeatLoop lines 176-177: case <-ctx.Done(): return
HbCtxDone ==
  /\ hbpc = "select"
  /\ hbCtx
  /\ hbpc' = "done"
  /\ UNCHANGED <<now, hbNext, hbCtx, workerRec, wrk, lastTickOk, hbErrs, hbAfterErr, busy,
                 beatRest>>

\* heartbeatLoop lines 178-182: case <-ticker.C: FindByID; on an error the
\* tick is given up, else the copy is kept for the Save
HbTick(findFails) ==
  /\ hbpc = "select"
  /\ now = hbNext
  /\ hbNext' = hbNext + HeartbeatInterval
  /\ hbAfterErr' = IF hbErrs > 0 THEN hbAfterErr + 1 ELSE hbAfterErr
  /\ IF findFails \/ ~workerRec.present
       THEN /\ hbpc' = AfterTickError
            /\ lastTickOk' = FALSE
            /\ hbErrs' = hbErrs + 1
            /\ UNCHANGED wrk
       ELSE /\ wrk' = Stamp(workerRec, now)
            /\ hbpc' = "save"
            /\ UNCHANGED <<lastTickOk, hbErrs>>
  /\ UNCHANGED <<now, hbCtx, workerRec, busy, beatRest>>

\* heartbeatLoop line 183: _ = w.workers.Save(ctx, wrk); Save stores the
\* whole record under its ID; an error is dropped
HbSave(saveFails) ==
  /\ hbpc = "save"
  /\ hbpc' = "select"
  /\ IF saveFails
       THEN /\ lastTickOk' = FALSE
            /\ hbErrs' = hbErrs + 1
            /\ UNCHANGED workerRec
       ELSE /\ workerRec' = wrk
            /\ lastTickOk' = TRUE
            /\ UNCHANGED hbErrs
  /\ UNCHANGED <<now, hbNext, hbCtx, wrk, hbAfterErr, busy, beatRest>>

\* the worker's context is cancelled
HbCancel ==
  /\ hbpc \in {"select", "save"}
  /\ ~hbCtx
  /\ hbCtx' = TRUE
  /\ UNCHANGED <<now, hbpc, hbNext, workerRec, wrk, lastTickOk, hbErrs, hbAfterErr, busy,
                 beatRest>>

\* execute lines 128-140: the main loop enters a handler, or the handler
\* returns; the heartbeat loop runs in its own goroutine meanwhile
HandlerToggle ==
  /\ hbpc \in {"select", "save"}
  /\ ~hbCtx \/ busy
  /\ busy' = ~busy
  /\ UNCHANGED <<now, hbpc, hbNext, hbCtx, workerRec, wrk, lastTickOk, hbErrs, hbAfterErr,
                 beatRest>>

HeartbeatNext ==
  \/ \E saveFails \in BOOLEAN : HbRunStart(saveFails)
  \/ TimePasses
  \/ HbCtxDone
  \/ \E findFails \in BOOLEAN : HbTick(findFails)
  \/ \E saveFails \in BOOLEAN : HbSave(saveFails)
  \/ HbCancel
  \/ HandlerToggle

SpecHeartbeat == Init /\ [][HeartbeatNext]_vars

\* the select of line 175 takes a case that stays ready, and a call to the
\* repository returns
HeartbeatFairness == WF_vars(HbCtxDone) /\ WF_vars(\E saveFails \in BOOLEAN : HbSave(saveFails))

SpecHeartbeatFair == SpecHeartbeat /\ HeartbeatFairness

\* another user of the worker repository saves the record with a new status
\* (memWorkerRepo.Save, src/cmd/worker/main.go lines 131-137)
OtherSave(status) ==
  /\ workerRec.present
  /\ workerRec.Status # status
  /\ workerRec' = [workerRec EXCEPT !.Status = status]
  /\ UNCHANGED <<now, hbpc, hbNext, hbCtx, wrk, lastTickOk, hbErrs, hbAfterErr, busy, beatRest>>

\* another user deletes the record (memWorkerRepo.Delete, lines 162-169)
OtherDelete ==
  /\ workerRec.present
  /\ workerRec' = AbsentRec
  /\ UNCHANGED <<now, hbpc, hbNext, hbCtx, wrk, lastTickOk, hbErrs, hbAfterErr, busy, beatRest>>

\* the heartbeat loop next to other users of the worker repository
HeartbeatRaceNext ==
  \/ HeartbeatNext
  \/ \E status \in {"idle", "busy", "drained"} : OtherSave(status)
  \/ OtherDelete

SpecHeartbeatRace == Init /\ [][HeartbeatRaceNext]_vars

(***************************************************************************)
(* WorkerRepo.ListActive (src/internal/repository/mock/mock.go, lines      *)
(* 365-376; src/unnamed/part_007, lines 147-164) against the clock:        *)
(* workers are created, send heartbeats and fall silent.                   *)
(***************************************************************************)
\* liveness_timeout, 3 x heartbeat_interval by default (Worker.IsAlive's timeout)
LivenessTimeout == 3 * HeartbeatInterval

liveRest == <<otherVars, lockVars, mockVars, svcVars, wstore, hb, runErr, beatVars, retryVars,
              lenVars, hookVars>>

\* Create, mock.go lines 325-331: the record is stored under its ID
LiveCreate(id, status) ==
  /\ aworkers' = [aworkers EXCEPT ![id] = [ID |-> id, Status |-> status, LastHeartbeat |-> now]]
  /\ UNCHANGED <<listed, listedAt, liveRest>>

\* UpdateHeartbeat, mock.go lines 378-387: only LastHeartbeat is written
LiveUpdateHeartbeat(id) ==
  /\ aworkers[id].ID # ""
  /\ aworkers' = [aworkers EXCEPT ![id].LastHeartbeat = now]
  /\ UNCHANGED <<listed, listedAt, liveRest>>

\* Update, mock.go lines 344-353: a caller stores the record with another status
LiveUpdate(id, status) ==
  /\ aworkers[id].ID # ""
  /\ aworkers' = [aworkers EXCEPT ![id].Status = status]
  /\ UNCHANGED <<listed, listedAt, liveRest>>

\* ListActive, mock.go lines 365-376: the records whose Status is active
ListActive ==
  /\ listed' = {aworkers[id] : id \in {i \in MockWorkerIDs : aworkers[i].Status = WorkerStatusActive}}
  /\ listedAt' = now
  /\ UNCHANGED <<aworkers, liveRest>>

\* the clock advances while no heartbeat loop of the model is running
LiveTimePasses == hbpc = "off" /\ TimePasses

LivenessNext ==
  \/ \E id \in MockWorkerIDs, status \in {WorkerStatusActive, WorkerStatusInactive} :
       LiveCreate(id, status) \/ LiveUpdate(id, status)
  \/ \E id \in MockWorkerIDs : LiveUpdateHeartbeat(id)
  \/ ListActive
  \/ LiveTimePasses

SpecLiveness == Init /\ [][LivenessNext]_vars

(***************************************************************************)
(* The useWebSocket hook (src/frontend/src/hooks/useWebSocket.ts): the     *)
(* effect's connect, the handlers it installs, the reconnect timer and the *)
(* cleanup, with the events of the browser's WebSocket.  ws is the socket  *)
(* created last.                                                           *)
(***************************************************************************)
MaxSockets == 4
MaxMessages == 2

hookRest == <<otherVars, lockVars, mockVars, svcVars, wstore, hb, runErr, beatVars, liveVars,
              retryVars, lenVars>>

\* ws.close(): a socket that is connecting or open starts closing
CloseSocket(ws) ==
  IF ws = <<>> THEN ws
  ELSE [ws EXCEPT ![Len(ws)] = IF @ \in {"connecting", "open"} THEN "closing" ELSE @]

\* connect, lines 14-35: new WebSocket(url) with its handlers; when the
\* constructor throws, the catch sets the reconnect timer
Connect(throws) ==
  IF throws
    THEN /\ hkTimer' = TRUE
         /\ UNCHANGED wsState
    ELSE /\ wsState' = Append(wsState, "connecting")
         /\ UNCHANGED hkTimer

\* the effect runs, line 37: connect()
Mount(throws) ==
  /\ hkMounted = "no"
  /\ Len(wsState) < MaxSockets
  /\ hkMounted' = "yes"
  /\ Connect(throws)
  /\ UNCHANGED <<wsAtUnmount, hkInvalidated, hookRest>>

\* the server accepts the connection
SocketOpens(i) ==
  /\ wsState[i] = "connecting"
  /\ wsState' = [wsState EXCEPT ![i] = "open"]
  /\ UNCHANGED <<hkMounted, hkTimer, wsAtUnmount, hkInvalidated, hookRest>>

\* a message arrives, lines 18-23: onmessage invalidates the four queries
SocketMessage(i) ==
  /\ wsState[i] \in {"open", "closing"}
  /\ hkInvalidated < MaxMessages
  /\ hkInvalidated' = hkInvalidated + 1
  /\ UNCHANGED <<hkMounted, wsState, hkTimer, wsAtUnmount, hookRest>>

\* the error event, lines 25-27: onerror calls ws.close()
SocketError(i) ==
  /\ wsState[i] \in {"connecting", "open"}
  /\ wsState' = CloseSocket(wsState)
  /\ UNCHANGED <<hkMounted, hkTimer, wsAtUnmount, hkInvalidated, hookRest>>

\* the close event of a socket that was closed or lost, lines 29-31:
\* onclose sets the reconnect timer
SocketCloseEvent(i) ==
  /\ wsState[i] \in {"connecting", "open", "closing"}
  /\ wsState' = [wsState EXCEPT ![i] = "closed"]
  /\ hkTimer' = TRUE
  /\ UNCHANGED <<hkMounted, wsAtUnmount, hkInvalidated, hookRest>>

\* the reconnect timer fires, lines 30 and 33: connect()
TimerFires(throws) ==
  /\ hkTimer
  /\ Len(wsState) < MaxSockets
  /\ IF throws
       THEN UNCHANGED <<hkTimer, wsState>>
       ELSE /\ hkTimer' = FALSE
            /\ wsState' = Append(wsState, "connecting")
  /\ UNCHANGED <<hkMounted, wsAtUnmount, hkInvalidated, hookRest>>

\* the cleanup of the effect, lines 39-42: clearTimeout, ws.close()
Unmount ==
  /\ hkMounted = "yes"
  /\ hkMounted' = "unmounted"
  /\ hkTimer' = FALSE
  /\ wsState' = CloseSocket(wsState)
  /\ wsAtUnmount' = Len(wsState)
  /\ UNCHANGED <<hkInvalidated, hookRest>>

HookNext ==
  \/ \E throws \in BOOLEAN : Mount(throws) \/ TimerFires(throws)
  \/ \E i \in 1..Len(wsState) :
       SocketOpens(i) \/ SocketMessage(i) \/ SocketError(i) \/ SocketCloseEvent(i)
  \/ Unmount

SpecHook == Init /\ [][HookNext]_vars

(***************************************************************************)
(* Fairness.  The Go scheduler runs every runnable goroutine, timers fire  *)
(* and the handler returns: a goroutine that is inside a call and can take *)
(* a step takes it.  Nothing obliges a caller to start a call, and nothing *)
(* obliges anyone to cancel a context.                                     *)
(***************************************************************************)
QueueFairness ==
  /\ \A p \in Enqueuers : WF_vars(QEnqueueSignal(p))
  /\ \A p \in Dequeuers :
       WF_vars(QDequeueLock(p) \/ QDequeueReturn(p) \/ QDequeueWake(p) \/ QDequeueCancelled(p))

SpecQueueFair == SpecQueue /\ QueueFairness

\* the worker whose context is never cancelled in SpecLive
KeptRunning == "w1"

LiveNext ==
  \/ \E id \in TaskIDs, maxRetries \in 0..MaxRetriesBound : SubmitSave(id, maxRetries)
  \/ \E id \in TaskIDs : SubmitEnqueue(id)
  \/ \E id \in TaskIDs : SubmitSignal(id)
  \/ \E w \in WorkerIDs : WorkerStep(w)
  \/ \E w \in WorkerIDs \ {KeptRunning} : WorkerCancel(w)

LiveFairness ==
  /\ \A w \in WorkerIDs : WF_vars(WorkerStep(w))
  /\ \A id \in TaskIDs : WF_vars(SubmitEnqueue(id) \/ SubmitSignal(id))

SpecLive == Init /\ [][LiveNext]_vars /\ LiveFairness

\* Shutdown under load: callers go on submitting for as long as they like,
\* and every worker's context may be cancelled.
ShutdownNext ==
  \/ \E id \in TaskIDs, maxRetries \in 0..MaxRetriesBound : SubmitSave(id, maxRetries)
  \/ \E id \in TaskIDs, maxRetries \in 0..MaxRetriesBound : SubmitSaveAgain(id, maxRetries)
  \/ \E id \in TaskIDs : SubmitEnqueue(id)
  \/ \E id \in TaskIDs : SubmitSignal(id)
  \/ \E w \in WorkerIDs : WorkerStep(w)
  \/ \E w \in WorkerIDs : WorkerCancel(w)

SpecShutdown == Init /\ [][ShutdownNext]_vars /\ LiveFairness

(***************************************************************************)
(* Properties                                                              *)
(***************************************************************************)
InBuf(k) == \E i \in 1..Len(buf) : Key(buf[i]) = k

\* an object with this ID is in the hands of Submit, of the queue or of a worker
Live(id) ==
  \/ spc[id] # "idle"
  \/ \E i \in 1..Len(buf) : buf[i].ID = id
  \/ \E w \in WorkerIDs : cur[w].ID = id

\* C1: once a task's persisted status is succeeded or failed, no later
\* operation changes it.  Stated here for the steps of Cancel and of the
\* workers only (a step that is not a Submit call leaves a terminal status
\* as it is), which is less than the claim says.
C1_TerminalStatusKept ==
  [][\A id \in TaskIDs :
       (IsTerminal(store[id]) /\ subCount' = subCount)
         => store'[id].Status = store[id].Status]_vars

\* C2: no task is left in running or retrying by workers that have exited.
\* Stated for the moment every worker has returned from Run: a task whose
\* persisted status is running or retrying is then still in somebody's hands
\* (in the queue or in a Submit call), which is less than the claim says.
C2_NoTaskLeftBehind ==
  (\A w \in WorkerIDs : wpc[w] = "exited")
    => \A id \in TaskIDs :
         store[id].Status \in {TaskStatusRunning, TaskStatusRetrying} => Live(id)

\* C3: after Cancel returned for a task that was waiting in the queue, no
\* worker invokes the handler for that task.
C3_CancelledNeverHandled ==
  \A w \in WorkerIDs : wpc[w] = "handler" => ~cur[w].cancelled

\* C4: each enqueued task is returned by at most one Dequeue call, whatever
\* the interleaving of the goroutines that call Enqueue and Dequeue.
C4_ReturnedAtMostOnce ==
  \A i, j \in 1..Len(retSeq) : i # j => retSeq[i][2] # retSeq[j][2]

\* C4 witness: two goroutines enqueued, and two different goroutines each got
\* a task from Dequeue.
C4_Witness ==
  /\ Cardinality(enqueuers) = 2
  /\ Len(retSeq) >= 2
  /\ retSeq[1][1] # retSeq[2][1]

\* C5: no dequeuer stays blocked in Dequeue forever while the buffer is
\* non-empty: again and again it is not (blocked with tasks in the buffer).
C5_NoDequeuerStuck ==
  \A p \in Dequeuers : []<>(~(qpc[p] = "wait" /\ Len(buf) > 0))

\* C5 witness: a dequeuer is blocked in the select with an empty channel while
\* the buffer holds a task, and another dequeuer that has just popped is
\* about to re-signal.
C5_Witness ==
  \E p, q \in Dequeuers :
    /\ qpc[p] = "resig" /\ qrem[p] > 0
    /\ qpc[q] = "wait" /\ sig = 0 /\ Len(buf) > 0

C7_SubmittedIsDequeued ==
  \A k \in Keys :
    InBuf(k) ~> (\E w \in WorkerIDs : wpc[w] = "exec" /\ Key(cur[w]) = k)

\* C7 witness: the other worker was cancelled and has exited, a task was
\* submitted after that, and Dequeue has returned it to the remaining worker.
C7_Witness ==
  /\ \E w \in WorkerIDs \ {KeptRunning} : wpc[w] = "exited"
  /\ wpc[KeptRunning] = "exec"
  /\ cur[KeptRunning].RetryCount = 0

\* C8: a task with MaxRetries = n whose handler fails on every invocation has
\* had n + 1 invocations and is persisted as failed when the worker is done
\* with it.  Stated for the step in which a worker lets go of a task whose
\* handler never returned nil (the step is not the handler's success and
\* does not hand the task back to the queue).
C8_ExhaustedRetries ==
  [][\A w \in WorkerIDs :
       (/\ wpc[w] \in {"handler", "backoff"}
        /\ cur'[w] = NoTask
        /\ ~(wpc[w] = "handler" /\ store'[cur[w].ID].Status = TaskStatusSucceeded))
         => /\ cur[w].inv = cur[w].MaxRetries + 1
            /\ store'[cur[w].ID].Status = TaskStatusFailed]_vars

\* C9: a persisted task has status succeeded or failed if and only if its
\* FinishedAt is set.
C9_TerminalIffFinished ==
  \A id \in TaskIDs :
    store[id] # NoTask => (IsTerminal(store[id]) <=> store[id].FinishedAt)

\* C10: once its context is cancelled, a worker does not begin a task that
\* was waiting in the queue.  Stated for tasks no worker has started yet: a
\* cancelled worker's Dequeue does not take such a task from the buffer.
C10_NoNewTaskAfterCancel ==
  [][\A w \in WorkerIDs :
       (ctxDone[w] /\ wpc[w] = "lock")
         => ~(wpc'[w] = "resig" /\ ~cur'[w].StartedAt)]_vars

\* C11: after its context is cancelled, Worker.Run eventually returns (every
\* return of Run in the model is the `return nil` of lines 118-119).
C11_CancelledRunReturns ==
  \A w \in WorkerIDs : ctxDone[w] ~> (wpc[w] = "exited")

\* C12: a Dequeue call returns in one of two ways only: with a task that was
\* enqueued (the one it popped), or, from the blocking select on an empty
\* look at the buffer, with ErrQueueEmpty when its context is cancelled, and
\* then it leaves the buffer, the channel and the returned tasks as they were.
C12_DequeueBlocksOrReturns ==
  [][\A p \in Dequeuers :
       (qpc[p] \in {"lock", "resig", "wait"} /\ qpc'[p] = "idle")
         => \/ /\ qpc[p] = "resig"
               /\ qval[p] \in 1..(nextItem - 1)
               /\ retSeq' = Append(retSeq, <<p, qval[p]>>)
            \/ /\ qpc[p] = "wait"
               /\ qctx[p]
               /\ buf' = buf /\ sig' = sig /\ retSeq' = retSeq]_vars

\* C12 witness: one goroutine's Dequeue has returned ErrQueueEmpty (it called,
\* is back, its context is cancelled and it never got a task) and another
\* goroutine's Dequeue has returned a task.
C12_Witness ==
  \E p \in Dequeuers :
    /\ p \in dequeuers /\ qpc[p] = "idle" /\ qctx[p]
    /\ \A i \in 1..Len(retSeq) : retSeq[i][1] # p
    /\ Len(retSeq) >= 1

\* the fields of the tasks in the queue, without the history fields
Tasks(b) == [i \in 1..Len(b) |-> Copy(b[i])]

\* C13: a Submit of a valid task whose Save succeeds returns nil, leaves the
\* task persisted as queued (what Status then returns) and appends it to the
\* queue exactly once, behind the tasks already there; a Submit whose Save
\* fails returns that error and enqueues nothing.
C13_SubmitPersistsThenEnqueues ==
  [][(ncalls' = ncalls + 1 /\ call'.op = "Submit")
       => /\ (Validate(call'.in) = "" /\ ~call'.repoFailed)
               => /\ call'.err = Nil
                  /\ FindByID(store', call'.id).Status = TaskStatusQueued
                  /\ Len(buf') = Len(buf) + 1
                  /\ SubSeq(buf', 1, Len(buf)) = buf
                  /\ buf'[Len(buf')].ID = call'.id
                  /\ buf'[Len(buf')].Status = TaskStatusQueued
          /\ call'.repoFailed
               => /\ call'.err = ErrRepo
                  /\ buf' = buf /\ sig' = sig /\ store' = store]_vars

\* C13 witness: a Submit has just returned nil with a task already waiting:
\* its task is stored as queued and is the last of two or more in the queue.
C13_Witness ==
  /\ call.op = "Submit" /\ call.err = Nil
  /\ store[call.id].Status = TaskStatusQueued
  /\ Len(buf) >= 2
  /\ buf[Len(buf)].ID = call.id

\* C14: a Submit of a task that breaks one of the four rules (empty ID, empty
\* Name, Priority outside 1..10, negative MaxRetries) returns an error that
\* matches ErrTaskInvalid and changes neither the repository nor the queue.
C14_InvalidSubmitRejected ==
  [][(/\ ncalls' = ncalls + 1
      /\ call'.op = "Submit"
      /\ \/ call'.in.ID = ""
         \/ call'.in.Name = ""
         \/ call'.in.Priority \notin 1..10
         \/ call'.in.MaxRetries < 0)
       => /\ call'.err[1] = "ErrTaskInvalid"
          /\ call'.err[2] # ""
          /\ store' = store /\ buf' = buf /\ sig' = sig]_vars

\* C14 witness: with a task stored and waiting in the queue, a Submit of a
\* task whose only fault is a negative MaxRetries has been rejected.
C14_Witness ==
  /\ call.op = "Submit"
  /\ call.in.ID # "" /\ call.in.Name # "" /\ call.in.Priority \in 1..10
  /\ call.in.MaxRetries < 0
  /\ call.err[1] = "ErrTaskInvalid"
  /\ Len(buf) > 0

\* C15: Cancel(id), the repository answering, returns ErrTaskNotFound itself
\* and changes nothing when no task is stored under id; returns nil and
\* changes nothing when the stored task is succeeded or failed; otherwise
\* returns nil with that task stored as failed and every other stored task,
\* and the tasks in the queue, as they were.
C15_CancelFrame ==
  [][(ncalls' = ncalls + 1 /\ call'.op = "Cancel" /\ ~call'.repoFailed)
       => LET id == call'.id
          IN /\ Tasks(buf') = Tasks(buf) /\ sig' = sig
             /\ \A other \in TaskIDs \ {id} : store'[other] = store[other]
             /\ IF store[id] = NoTask
                  THEN call'.err = ErrTaskNotFound /\ store' = store
                ELSE IF store[id].Status \in {TaskStatusSucceeded, TaskStatusFailed}
                  THEN call'.err = Nil /\ store' = store
                ELSE /\ call'.err = Nil
                     /\ store'[id].Status = TaskStatusFailed
                     /\ store'[id].ID = id]_vars

\* C15 witness: Cancel has just returned nil for a task that was not
\* terminal (it has no FinishedAt) and is now stored as failed, while
\* another task is stored too.
C15_Witness ==
  /\ call.op = "Cancel" /\ call.err = Nil
  /\ store[call.id].Status = TaskStatusFailed
  /\ ~store[call.id].FinishedAt
  /\ \E other \in TaskIDs \ {call.id} : store[other] # NoTask

\* C16: when the handler returns nil for a task after failing on its first k
\* invocations (k = the invocations before this one, at most MaxRetries), the
\* state execute persists for the task is: status succeeded, RetryCount = k,
\* FinishedAt set, Error empty.
C16_SucceedsAfterRetries ==
  [][\A w \in WorkerIDs :
       (/\ wpc[w] = "handler"
        /\ wpc'[w] = "lock"
        /\ store'[cur[w].ID].Status # TaskStatusFailed)
         => LET k == cur[w].inv - 1
                saved == store'[cur[w].ID]
            IN /\ k <= cur[w].MaxRetries
               /\ saved.Status = TaskStatusSucceeded
               /\ saved.RetryCount = k
               /\ saved.FinishedAt
               /\ ~saved.Error]_vars

\* C16 witness: a task is stored as succeeded after one failed invocation and
\* a retry, and no worker or queue holds it any more.
C16_Witness ==
  \E id \in TaskIDs :
    /\ store[id].Status = TaskStatusSucceeded
    /\ store[id].RetryCount = 1
    /\ store[id].FinishedAt /\ ~store[id].Error
    /\ ~Live(id)

\* C17: every change a worker's step makes to a task's persisted status is
\* one of queued -> running, running -> succeeded, running -> retrying,
\* retrying -> running, running -> failed.
C17_WorkerTransitions ==
  [][\A w \in WorkerIDs, id \in TaskIDs :
       (wpc'[w] # wpc[w] /\ store'[id].Status # store[id].Status)
         => <<store[id].Status, store'[id].Status>> \in
              {<<TaskStatusQueued, TaskStatusRunning>>,
               <<TaskStatusRunning, TaskStatusSucceeded>>,
               <<TaskStatusRunning, TaskStatusRetrying>>,
               <<TaskStatusRetrying, TaskStatusRunning>>,
               <<TaskStatusRunning, TaskStatusFailed>>}]_vars

\* C18: a call during which a repository operation fails reports the
\* failure to its caller and writes nothing to the repository afterwards:
\* Submit, Cancel, Status, and the worker's execution of a task.
C18_RepoFailureSurfaced ==
  [][(ncalls' = ncalls + 1 /\ call'.repoFailed)
       => /\ call'.err = ErrRepo
          /\ store' = store]_vars

\* C19: DefaultBackoff(i) is min(2^i, 30) seconds for every attempt index
\* i >= 0: 2^i seconds below 5, and 30 seconds from 5 on however large i is.
C19_BackoffIsCappedPower ==
  attempt >= 0 =>
    delay = Mul64(FromInt(IF attempt >= 5 THEN 30 ELSE 2^attempt), FromInt(Second))

\* the step in which b's Broadcast call returns
BroadcastReturns(b) == bpc[b] \in {"loop", "snap"} /\ bpc'[b] = "idle"

\* C20: a Broadcast call attempts one write to every connection of its
\* snapshot; every connection whose write failed (in this call or an earlier
\* one) is out of the client set and is never written to again; every other
\* connection of the snapshot has received the event.  Looked at when the
\* call returns and at each write.  A call that returns on a cancelled
\* context before its first write is left aside here, which is less than the
\* claim says.
C20_BroadcastToAll ==
  [][\A b \in Broadcasters :
       /\ (BroadcastReturns(b) /\ ~(battempt[b] = <<>> /\ bctx[b]))
            => /\ Len(battempt[b]) = Cardinality(bset[b])
               /\ \A c \in bset[b] : \E i \in 1..Len(battempt[b]) : battempt[b][i] = c
               /\ \A c \in bset[b] \ dropped :
                    \E i \in 1..Len(received[c]) : received[c][i] = bev[b]
       /\ dropped' \cap clients' = {}
       /\ bpc'[b] = "write" => Head(bsnap'[b]) \notin dropped']_vars

\* C21: the events a subscriber has received are in the order in which their
\* Broadcast calls were made (events are numbered in call order), also when
\* Broadcast runs in several goroutines at once.
C21_DeliveredInBroadcastOrder ==
  \A c \in Conns :
    \A i, j \in 1..Len(received[c]) : i < j => received[c][i] < received[c][j]

\* a step of b's Broadcast call: the call itself, the snapshot, the select
\* or a write
BroadcastStep(b) == bpc'[b] # bpc[b] \/ bev'[b] # bev[b]

\* C22: a Broadcast call whose snapshot is empty changes nothing in the hub
\* (the client set, the connections, what they received), and neither does
\* a Broadcast call made with an already-cancelled context, which writes to
\* no subscriber and unregisters none.
C22_NoClientsOrCancelledIsNoOp ==
  [][\A b \in Broadcasters :
       (BroadcastStep(b) /\ (bpre'[b] \/ bset'[b] = {}))
         => /\ UNCHANGED <<clients, conn, received, dropped>>
            /\ battempt'[b] = <<>>]_vars

\* a call made with a cancelled context has returned while clients were
\* registered, and a call has taken its snapshot of a hub without clients
C22_Witness ==
  /\ \E b \in Broadcasters :
       bpre[b] /\ bpc[b] = "idle" /\ bset[b] # {} /\ \A c \in bset[b] : conn[c] = "open"
  /\ \E b \in Broadcasters :
       ~bctx[b] /\ bpc[b] = "loop" /\ bset[b] = {}

\* g is inside a Lock or RLock call that cannot return now
Blocked(g) ==
  /\ Edges(g) # {}
  /\ \A e \in Edges(g) : e[2] \in {"Lock", "RLock"} /\ Blockers(e[2], e[3]) # {}

\* a set of goroutines each of which waits for a lock that one of them keeps
Deadlocked(S) ==
  /\ S # {}
  /\ \A g \in S :
       Blocked(g) /\ \E e \in Edges(g) : Blockers(e[2], e[3]) \cap S # {}

\* C23: no goroutine holds two locks at once, and no set of goroutines wait
\* on each other's locks.
C23_OneLockNoDeadlock ==
  /\ \A g \in Goroutines : Cardinality(held[g]) <= 1
  /\ \A S \in SUBSET Goroutines : ~Deadlocked(S)

\* a goroutine that went through TriggerWorkflow's two repositories reads
\* the hub's client set while another waits for the write lock in unregister
C23_Witness ==
  \E g, k \in Goroutines :
    /\ held[g] = {<<HubMu, "r">>} /\ gpc[g] = "handler.Broadcast.RLock+" \o HubMu
    /\ Blocked(k) /\ gpc[k] = "Broadcast.unregister"

\* C24: when the caller changes the entity it passed to Create or got from
\* GetByID or a list, or the time.Time its pointer points to, what the
\* repositories hold (FinishedAt followed to its time value) stays the same.
C24_CallerCannotReachStore ==
  [][ret'.op \in {"SetField", "SetTime"}
       => /\ View(runs', cells') = View(runs, cells)
          /\ View(taskRuns', cells') = View(taskRuns, cells)]_vars

\* no record is stored under id in the repository that id belongs to
IsAbsent(id) ==
  \/ id \in WorkflowIDs /\ workflows[id] = AbsentWorkflow
  \/ id \in RunIDs /\ runs[id] = AbsentRun
  \/ id \in TaskRunIDs /\ taskRuns[id] = AbsentTaskRun
  \/ id \in MockWorkerIDs /\ mworkers[id] = AbsentWorker

\* C25: GetByID, Update, Delete, UpdateStatus and UpdateHeartbeat called
\* with an id that is not stored return ErrNotFound and leave every store
\* as it was.
C25_MissingIsNotFound ==
  [][(/\ ret'.op \in {"GetByID", "Update", "Delete", "UpdateStatus", "UpdateHeartbeat"}
      /\ IsAbsent(ret'.id))
       => /\ ret'.err = ErrNotFound
          /\ UNCHANGED <<workflows, runs, taskRuns, mworkers>>]_vars

\* UpdateStatus has just returned ErrNotFound for a run that is not stored,
\* while other records are stored
C25_Witness ==
  /\ ret.op = "UpdateStatus" /\ ret.id \in RunIDs /\ ret.err = ErrNotFound
  /\ runs[ret.id] = AbsentRun
  /\ \E id \in RunIDs : runs[id] # AbsentRun
  /\ \E id \in WorkflowIDs : workflows[id] # AbsentWorkflow

\* C26: TriggerWorkflow for a workflow id that is not stored returns the
\* not-found error and creates no run; for a stored workflow it creates
\* exactly one new run, with that workflow's id, status pending and no
\* finished_at, and changes no other run.
C26_TriggerCreatesOneRun ==
  [][ret'.op = "TriggerWorkflow"
       => IF workflows[ret'.id] = AbsentWorkflow
            THEN ret'.err = ErrNotFound /\ runs' = runs
            ELSE /\ ret'.err = Nil
                 /\ \E id \in RunIDs :
                      /\ runs[id] = AbsentRun
                      /\ runs' = [runs EXCEPT ![id] =
                                    [ID |-> id, WorkflowID |-> ret'.id,
                                     Status |-> "pending", FinishedAt |-> 0]]]_vars

\* a trigger of a workflow that is not stored has returned not-found after
\* a trigger of a stored workflow created a run
C26_Witness ==
  /\ ret.op = "TriggerWorkflow" /\ ret.err = ErrNotFound
  /\ workflows[ret.id] = AbsentWorkflow
  /\ \E id \in RunIDs : runs[id] # AbsentRun /\ runs[id].Status = "pending"

\* the runs whose event has been handed to hub.Broadcast
SentRuns == {sent[i].Payload.ID : i \in 1..Len(sent)}

\* every event handed to Broadcast is a workflow_status event that carries
\* a persisted run, no run has two events, and every persisted run has its
\* event once its request has got past the Broadcast call
SentMatchesRuns ==
  /\ \A i \in 1..Len(sent) :
       /\ sent[i].Type = "workflow_status"
       /\ sent[i].Payload.ID \in RunIDs
       /\ sent[i].Payload = runs[sent[i].Payload.ID]
       /\ \A j \in 1..Len(sent) : sent[j].Payload.ID = sent[i].Payload.ID => i = j
  /\ SentRuns \cup (IF hpc = "broadcast" THEN {hrun.ID} ELSE {})
       = {id \in RunIDs : runs[id] # AbsentRun}
  /\ hpc = "broadcast" => hrun.ID \notin SentRuns

\* C27: each successful trigger hands exactly one workflow_status event
\* carrying the new run to hub.Broadcast, after the run has been persisted;
\* a trigger that fails hands none.
C27_OneEventPerTrigger ==
  [][/\ SentMatchesRuns'
     /\ (ret'.op \in {"TriggerWorkflow", "triggerWorkflow"} /\ ret'.err # Nil)
          => sent' = sent /\ hpc' = "idle"
     /\ sent' # sent => hpc = "broadcast" /\ sent' = Append(sent, [Type |-> "workflow_status",
                                                                 Payload |-> hrun])]_vars

\* two requests have been answered after their events were handed over, and
\* a third one has failed with not-found
C27_Witness ==
  /\ hpc = "idle"
  /\ Len(sent) = Cardinality(RunIDs)
  /\ ret.op = "TriggerWorkflow" /\ ret.err = ErrNotFound

\* C28: a list operation of the service facade that finds no matching
\* record returns an empty list that is not nil.
C28_EmptyListNotNil ==
  (/\ ret.op \in {"ListWorkflows", "ListWorkflowRuns", "ListTaskRuns", "ListWorkers"}
   /\ ret.err = Nil
   /\ ret.list.items = <<>>)
    => ~ret.list.isNil

\* C29: ListWorkflows(offset, limit) returns the elements of the full
\* repository list from index max(offset, 0) on, in the same order: at most
\* limit of them when limit > 0, all of them when limit <= 0, and an empty
\* list when the offset is at or beyond the length of the full list.
C29_PageOfFullList ==
  ret.op = "ListWorkflows" =>
    LET all == ret.all.items
        from == IF ret.offset > 0 THEN ret.offset ELSE 0
        n == IF from >= Len(all) THEN 0
             ELSE IF ret.limit > 0 /\ ret.limit < Len(all) - from THEN ret.limit
             ELSE Len(all) - from
    IN /\ Len(ret.list.items) = n
       /\ \A i \in 1..n : ret.list.items[i] = all[from + i]

\* a page of one workflow out of the middle of a list of three
C29_Witness ==
  /\ ret.op = "ListWorkflows"
  /\ Len(ret.all.items) = Cardinality(WorkflowIDs)
  /\ ret.offset > 0 /\ ret.limit > 0 /\ ret.offset + ret.limit < Len(ret.all.items)
  /\ ret.list.items = <<ret.all.items[ret.offset + 1]>>

\* C30: a worker takes no step of its dequeue loop before Run has saved its
\* record with status idle, Concurrency 1 and ActiveTasks 0 and started the
\* heartbeat loop; when that save fails Run returns an error, the heartbeat
\* loop is not started and nothing is dequeued.
C30_RegistersBeforeDequeue ==
  [][\A w \in WorkerIDs :
       /\ (wpc'[w] # wpc[w] /\ wpc[w] # "register")
            => /\ wstore[w] = [ID |-> w, Status |-> "idle", Concurrency |-> 1,
                               ActiveTasks |-> 0]
               /\ hb[w]
               /\ runErr[w] = Nil
       /\ runErr'[w] # Nil
            => /\ wpc'[w] = "exited"
               /\ ~hb'[w]
               /\ wstore'[w] = NoWorker
               /\ cur'[w] = NoTask]_vars

\* one worker's registration has failed and Run has returned, while another
\* worker has registered and dequeued a task
C30_Witness ==
  \E w, v \in WorkerIDs :
    /\ runErr[w] # Nil /\ wpc[w] = "exited"
    /\ runErr[v] = Nil /\ wstore[v].Concurrency = 1 /\ cur[v] # NoTask

C32_StaleNotListedActive ==
  \A r \in listed :
    listedAt - r.LastHeartbeat <= LivenessTimeout \/ r.Status = WorkerStatusInactive

\* TaskDependency (src/unnamed/part_004, lines 209-214): task t2 must wait
\* for task t1 to complete
TaskDependencies == {[TaskID |-> "t2", DependsOnTaskID |-> "t1"]}

C34_RetryAfterBackoff ==
  [][\A w \in WorkerIDs :
       /\ (wpc[w] = "handler" /\ wpc'[w] \in {"backoff", "reenq"})
            => /\ cur[w].RetryCount < cur[w].MaxRetries
               /\ cur'[w].RetryCount = cur[w].RetryCount + 1
               /\ cur'[w].Status = "retrying"
               /\ store'[cur[w].ID].Status = "retrying"
               /\ store'[cur[w].ID].RetryCount = cur'[w].RetryCount
               /\ (wpc'[w] = "backoff")
                    => /\ bdelay'[w] = DefaultBackoff(cur'[w].RetryCount - 1)
                       /\ Gt64(bdelay'[w], Zero64)
               /\ buf' = buf
       /\ wpc'[w] = "backoff" => ~InBuf(Key(cur'[w]))
       /\ (wpc[w] = "backoff" /\ wpc'[w] # "backoff")
            => /\ buf' = buf
               /\ wpc'[w] = "reenq" \/ (ctxDone[w] /\ cur'[w] = NoTask)
       /\ (wpc'[w] = "reenq" /\ wpc[w] # "reenq")
            => /\ wpc[w] \in {"handler", "backoff"}
               /\ cur'[w] = IF wpc[w] = "backoff" THEN cur[w] ELSE MarkRetrying(cur[w])
       /\ (wpc[w] = "reenq" /\ wpc'[w] # "reenq")
            => buf' = Append(buf, cur[w])]_vars

\* one worker waits for the first retry's backoff of one second while a
\* task that has already been retried once is back in the queue
C34_Witness ==
  \E w \in WorkerIDs :
    /\ wpc[w] = "backoff"
    /\ cur[w].RetryCount = 1
    /\ store[cur[w].ID].Status = "retrying"
    /\ bdelay[w] = FromInt(Second)
    /\ \E i \in 1..Len(buf) : buf[i].RetryCount = 1 /\ buf[i].Status = "retrying"

\* the task ID has at most one live copy: at most one entry of the queue,
\* no entry while a worker holds it, and at most one worker holding it
OneLiveCopy(id) ==
  /\ Cardinality({i \in 1..Len(buf) : buf[i].ID = id}) <= 1
  /\ ~(\E i \in 1..Len(buf), w \in WorkerIDs : buf[i].ID = id /\ cur[w].ID = id)
  /\ Cardinality({w \in WorkerIDs : cur[w].ID = id}) <= 1

\* C35 (as stated): under any sequence of Submit, Cancel and worker steps
\* every task ID has at most one live copy.
C35_OneLiveCopy == \A id \in TaskIDs : OneLiveCopy(id)

\* C35 (amended): every task ID that has been submitted once has at most one
\* live copy.
C35_OneLiveCopyPerSubmission == \A id \in TaskIDs : subCount[id] <= 1 => OneLiveCopy(id)

\* a task submitted once has failed, was re-enqueued and is executed again,
\* by the other worker, after a Cancel call for it
C35_Witness ==
  \E id \in TaskIDs, w \in WorkerIDs :
    /\ subCount[id] = 1
    /\ cur[w].ID = id /\ cur[w].RetryCount = 1 /\ wpc[w] = "handler"
    /\ ncancel > 0
    /\ \E v \in WorkerIDs \ {w} : wpc[v] \notin {"register", "exited"}

\* C36: the write of a heartbeat tick changes nothing but the last-heartbeat
\* time of the stored record: the other fields stay as they are in the
\* repository at the time of the write, and a deleted record stays deleted.
C36_TickWritesOnlyHeartbeat ==
  [][(hbpc = "save" /\ hbpc' = "select")
       => /\ workerRec'.present = workerRec.present
          /\ workerRec'.Status = workerRec.Status]_vars

\* C37: no two Broadcast calls are inside c.WriteMessage on the same
\* connection at the same time.
C37_OneWriterPerConnection ==
  \A b1, b2 \in Broadcasters :
    (b1 # b2 /\ bpc[b1] = "write" /\ bpc[b2] = "write")
      => Head(bsnap[b1]) # Head(bsnap[b2])

\* the tasks Dequeue has taken out of the buffer: those it has returned and
\* those a Dequeue call has popped and is about to return
TakenOut ==
  <<{retSeq[i][2] : i \in 1..Len(retSeq)}, {qval[p] : p \in {d \in Dequeuers : qpc[d] = "resig"}}>>

\* C38: the queue neither loses nor duplicates a task: the tasks Dequeue has
\* taken out (returned, or popped by a call that is returning) and the tasks
\* in the buffer are, each once, exactly the tasks enqueued so far; and a Len
\* call returns the number of tasks enqueued and not yet taken out.
C38_QueueConservesTasks ==
  [][LET in(b) == {b[i] : i \in 1..Len(b)}
         popped(q) == {d \in Dequeuers : q[d] = "resig"}
     IN /\ TakenOut'[1] \cup TakenOut'[2] \cup in(buf') = 1..(nextItem' - 1)
        /\ Len(retSeq') + Cardinality(popped(qpc')) + Len(buf') = nextItem' - 1
        /\ (qlen = -1 /\ qlen' # -1)
             => qlen' = (nextItem - 1) - Len(retSeq) - Cardinality(popped(qpc))]_vars

\* tasks were enqueued by two goroutines; one has been returned, one is
\* popped, one is buffered, and Len has just returned 1
C38_Witness ==
  /\ Cardinality(enqueuers) = 2
  /\ Len(retSeq) >= 1
  /\ \E p \in Dequeuers : qpc[p] = "resig"
  /\ Len(buf) = 1
  /\ qlen = 1

\* C39: the heartbeat loop ends only when the worker's context is cancelled,
\* whatever repository errors its ticks have met (after an error it is back
\* at the select, where the next tick is attempted), and once the context is
\* cancelled the loop does end.
C39_ErrorsDoNotStopLoop ==
  /\ [](hbpc = "done" => hbCtx)
  /\ []((hbErrs > 0 /\ ~hbCtx) => hbpc \in {"select", "save"})
  /\ (hbCtx ~> hbpc = "done")

\* ticks have failed, later ticks were attempted and the last one updated the
\* record, and after the cancellation the loop has ended
C39_Witness ==
  /\ hbErrs > 0
  /\ hbAfterErr > 1
  /\ lastTickOk
  /\ workerRec.LastHeartAt > HeartbeatInterval
  /\ hbCtx /\ hbpc = "done"

\* C40: once the hook is unmounted its socket is closing or closed, no
\* reconnect timer is pending and no WebSocket has been created since.
C40_NoReconnectAfterUnmount ==
  hkMounted = "unmounted"
    => /\ \A i \in 1..wsAtUnmount : wsState[i] \in {"closing", "closed"}
       /\ ~hkTimer
       /\ Len(wsState) = wsAtUnmount

=============================================================================
